---- MODULE Spec2Model ----
(***************************************************************************)
(* Model of corebrain/core/query.py: the two-tier QueryCache (memory tier  *)
(* with LRU bookkeeping, durable blob tier, metadata store).               *)
(*                                                                         *)
(* Spec      : sequential histories of set / get / clear, one whole call   *)
(*             per step, with the durable tier's failures as inputs.       *)
(* SpecConc  : several threads calling set / get / clear on one cache,     *)
(*             one Python statement on the shared structures, the blob     *)
(*             files or the metadata database per step.                    *)
(***************************************************************************)
EXTENDS Integers, Sequences, FiniteSets, TLC

(* ------------------------------ bounds -------------------------------- *)
MaxTime == 2
MaxLimit == 2
MaxTtl == 2
MaxOps == 4
MaxFaults == 1
MaxOlder == 1
MaxCalls == 2
MaxSaves == 2
NThreads == 2
MaxLogs == 2
MaxLogTime == 2
MaxResults == 2
DayLen == 2

(* ------------------------------ values -------------------------------- *)
Payloads == {"p1", "p2"}
\* what pickle.load cannot read: the file left by open(..., 'wb') when pickle.dump failed
Corrupt == "corrupt"
\* Python's None, as a return value
NoResult == "None"

\* Texts are sequences of one-character strings. A collection name is optional:
\* {} is None, {s} is the string s.
Lower(c) == IF c = "A" THEN "a" ELSE IF c = "B" THEN "b" ELSE c
IsSpace(c) == c \in {" ", "\t"}

RECURSIVE LStrip(_)
LStrip(s) == IF s # <<>> /\ IsSpace(Head(s)) THEN LStrip(Tail(s)) ELSE s

RECURSIVE RStrip(_)
RStrip(s) == IF s # <<>> /\ IsSpace(s[Len(s)]) THEN RStrip(SubSeq(s, 1, Len(s) - 1)) ELSE s

\* re.sub(r'\s+', ' ', ...): every run of whitespace becomes one blank
RECURSIVE Collapse(_)
Collapse(s) ==
    IF s = <<>> THEN <<>>
    ELSE IF IsSpace(Head(s))
         THEN <<" ">> \o Collapse(LStrip(s))
         ELSE <<Head(s)>> \o Collapse(Tail(s))

\* a normalization that forgets lower(): the spelling keeps its case
Normalize_NoLower(q) == Collapse(RStrip(LStrip(q)))

\* query.lower().strip(), then the whitespace runs collapsed
Normalize(q) == Collapse(RStrip(LStrip([i \in 1..Len(q) |-> Lower(q[i])])))

\* hashlib.md5(...).hexdigest(): a digest of its input, taken to be collision-free
Md5(s) == <<"md5", s>>

\* `if collection_name:` is false for None and for the empty string
Truthy(coll) == coll # {} /\ (CHOOSE s \in coll : TRUE) # <<>>

GetHash(query, config_id, collection_name) ==
    LET base == Normalize(query) \o <<"|">> \o config_id
    IN  Md5(IF Truthy(collection_name)
            THEN base \o <<"|">> \o (CHOOSE s \in collection_name : TRUE)
            ELSE base)

\* the (query, config_id, collection) triples the callers use
Calls ==
    { [query |-> <<" ", "A">>, config_id |-> <<"c">>, collection |-> {}],
      [query |-> <<"b">>,      config_id |-> <<"c">>, collection |-> {}],
      [query |-> <<"a">>,      config_id |-> <<"c">>, collection |-> {<<"t">>}] }

\* spellings of one query ("a b") and a query that is another one ("ab")
KeyCalls ==
    { [query |-> <<"a", " ", "b">>,            config_id |-> <<"c">>, collection |-> {}],
      [query |-> <<" ", "A", " ", "\t", "B">>, config_id |-> <<"c">>, collection |-> {}],
      [query |-> <<"a", "\t", "B", " ">>,      config_id |-> <<"c">>, collection |-> {}],
      [query |-> <<"a", "b">>,                 config_id |-> <<"c">>, collection |-> {}] }

\* one query under a collection, under a configuration that spells the same text,
\* under the empty collection, under no collection, and under another configuration
SepCalls ==
    { [query |-> <<"a">>, config_id |-> <<"c">>,           collection |-> {<<"t">>}],
      [query |-> <<"a">>, config_id |-> <<"c", "|", "t">>, collection |-> {}],
      [query |-> <<"a">>, config_id |-> <<"c">>,           collection |-> {<<>>}],
      [query |-> <<"a">>, config_id |-> <<"c">>,           collection |-> {}],
      [query |-> <<"a">>, config_id |-> <<"d">>,           collection |-> {<<"t">>}] }

HashOf(call) == GetHash(call.query, call.config_id, call.collection)
Hashes == { HashOf(c) : c \in Calls \cup KeyCalls \cup SepCalls }

(* ------------------------- finite maps, lists -------------------------- *)
Put(f, k, v) == [x \in DOMAIN f \cup {k} |-> IF x = k THEN v ELSE f[x]]
Del(f, k) == [x \in DOMAIN f \ {k} |-> f[x]]
Empty == [x \in {} |-> 0]
Has(s, k) == \E i \in 1..Len(s) : s[i] = k
\* list.remove(k): drops the first occurrence
RECURSIVE ListRemove(_, _)
ListRemove(s, k) ==
    IF s = <<>> THEN <<>>
    ELSE IF Head(s) = k THEN Tail(s) ELSE <<Head(s)>> \o ListRemove(Tail(s), k)
Elems(s) == { s[i] : i \in 1..Len(s) }
NoDup(s) == \A i, j \in 1..Len(s) : s[i] = s[j] => i = j

(* ------------------------------- state --------------------------------- *)
VARIABLES
    memory_cache,       \* hash -> payload
    memory_timestamps,  \* hash -> time the memory entry was written
    memory_lru,         \* list of hashes, least recently used first
    memory_limit,
    ttl,
    disk,               \* hash -> [data, mtime]: the blob files
    subdirs,            \* hashes whose subdirectory of cache_dir exists
    meta,               \* hash -> [hit_count, created_at, last_accessed]: cache_metadata rows
    now,                \* time.time()
    last,               \* the last completed call and what it returned
    ops,                \* number of calls made
    faults,             \* number of calls the durable tier failed
    setAt,              \* history: hash -> time of the last set of it (-1: never)
    setBy,              \* history: hash -> the call of the last set of it ({}: never)
    useOrder,           \* history: hashes by their last set or get hit, oldest first
    lruEvicted,         \* history: hashes whose memory entry the LRU policy dropped
    pc, loc, calls,     \* SpecConc: each thread's position, locals, calls started
    templates,          \* QueryAnalyzer.templates: the registry, a list of templates
    template_file,      \* the file at template_path: a list of template data, or a marker
    tres,               \* the last completed call of the analyzer and what it returned
    query_log,          \* table query_log: the rows in insertion order
    query_patterns,     \* table query_patterns: the rows in insertion order
    db_lock,            \* the connection whose transaction holds the write lock of the file:
                        \* a thread's (its number), a dropped one (Dropped), none (0)
    lres                \* the last completed call on the query log and what it returned

cacheVars == <<memory_cache, memory_timestamps, memory_lru, memory_limit, ttl, disk, subdirs,
              meta, now>>
histVars == <<last, ops, faults, setAt, setBy, useOrder, lruEvicted>>
threadVars == <<pc, loc, calls>>
tplVars == <<templates, template_file, tres>>
logVars == <<query_log, query_patterns, db_lock, lres>>
analyzerVars == <<tplVars, logVars>>
vars == <<cacheVars, histVars, threadVars, tplVars, logVars>>

\* the record of an analyzer call; index 0 stands for a result of None
NoTres == [op |-> "none", ok |-> FALSE, index |-> 0, params |-> <<>>,
           result |-> [kind |-> "none", text |-> <<>>],
           raised |-> FALSE, query |-> <<>>, tables |-> {}, template |-> {}]
\* the specifications of the cache construct no QueryAnalyzer
\* the record of a call on the query log
NoLres == [op |-> "none", query |-> <<>>, limit |-> 0, rows |-> <<>>, suggestions |-> <<>>,
           candidate |-> {}, raised |-> FALSE]
\* the log database before its first log_query
NoLog == query_log = <<>> /\ query_patterns = <<>> /\ db_lock = 0 /\ lres = NoLres
NoAnalyzer == templates = <<>> /\ template_file = "absent" /\ tres = NoTres /\ NoLog

Threads == 1..NThreads
Idle == [t \in Threads |-> "idle"]
NoHash == Md5(<<>>)
\* a thread's locals: the call it runs, its key, result, timestamp and oldest_hash,
\* where _update_memory_lru returns to; the file it holds open (fd: "none", "open", or
\* "unlinked" with what the file holds in snap and the threads that hold it in group);
\* the SELECT's result and the row to commit in _update_metadata; the subdirectories
\* and blobs clear() still has to visit
NoLocals == [op |-> "none", h |-> NoHash, result |-> NoResult, timestamp |-> 0,
             oldest |-> NoHash, ret |-> "idle", fd |-> "none", snap |-> NoResult,
             group |-> {}, hits |-> {}, row |-> {}, todo |-> {}, files |-> {}]

\* no lock at all: a write never waits
CanWrite_Always(t) == TRUE

\* the connection of a call that raised with its transaction open: no thread holds it,
\* and it keeps the write lock until the garbage collector closes it
Dropped == NThreads + 1

\* the connection of thread t after its commit failed (database is locked): the
\* transaction stays open and holds sqlite's PENDING lock while the exception is handled
Pending(t) == Dropped + t
\* that connection once the call is over: unclosed, it keeps the PENDING lock until the
\* garbage collector closes it
DroppedPending == Dropped + NThreads + 1

\* sqlite's write lock: an UPDATE, INSERT or DELETE waits while another connection's
\* transaction holds it
CanWrite(t) == db_lock \in {0, t}

\* a SELECT waits while another connection holds the PENDING lock
CanRead(t) == db_lock \in {0, Dropped} \cup Threads

(* ------------------- QueryCache, one whole call at a time -------------- *)
\* The memory tier as one value: the three structures _update_memory_lru works on.
Mem == [cache |-> memory_cache, ts |-> memory_timestamps, lru |-> memory_lru]

\* del self.memory_cache[k]; del self.memory_timestamps[k]
DropEntry(m, k) == [m EXCEPT !.cache = Del(m.cache, k), !.ts = Del(m.ts, k)]

\* _update_memory_lru with a fault: without the eviction; without the move to the end
UpdateMemoryLru_NoEvict(m, h) ==
    [m EXCEPT !.lru = Append(IF Has(m.lru, h) THEN ListRemove(m.lru, h) ELSE m.lru, h)]

UpdateMemoryLru_NoMove(m, h) ==
    LET l1 == IF Has(m.lru, h) THEN m.lru ELSE Append(m.lru, h)
    IN  IF Len(l1) > memory_limit
        THEN LET oldest_hash == Head(l1)
                 m2 == [m EXCEPT !.lru = Tail(l1)]
             IN  IF oldest_hash \in DOMAIN m2.cache THEN DropEntry(m2, oldest_hash) ELSE m2
        ELSE [m EXCEPT !.lru = l1]

\* QueryCache._update_memory_lru
UpdateMemoryLru(m, h) ==
    LET l1 == Append(IF Has(m.lru, h) THEN ListRemove(m.lru, h) ELSE m.lru, h)
    IN  IF Len(l1) > memory_limit
        THEN LET oldest_hash == Head(l1)
                 m2 == [m EXCEPT !.lru = Tail(l1)]
             IN  IF oldest_hash \in DOMAIN m2.cache THEN DropEntry(m2, oldest_hash) ELSE m2
        ELSE [m EXCEPT !.lru = l1]

\* _get_cache_path: the subdirectory of a hash, named by its first two hex digits. The
\* hashes of the model's keys differ there, so each has a subdirectory of its own.
Subdir(h) == h

\* QueryCache._update_metadata at time t: bump the row, or insert it with hit_count 1
UpdateMetadata(rows, h, t) ==
    IF h \in DOMAIN rows
    THEN [rows EXCEPT ![h].hit_count = @ + 1, ![h].last_accessed = t]
    ELSE Put(rows, h, [hit_count |-> 1, created_at |-> t, last_accessed |-> t])

\* self.memory_cache[h] = result; self.memory_timestamps[h] = time.time()
Store(m, h, result) == [m EXCEPT !.cache = Put(m.cache, h, result), !.ts = Put(m.ts, h, now)]

\* the TTL test with the comparison turned round
Fresh_Inverted(t) == (now - t) > ttl

\* (time.time() - timestamp) < self.ttl, for a memory timestamp or a file's mtime
Fresh(t) == (now - t) < ttl

\* get's except branch without the unlink
LoadFailed_KeepBlob(d, h) == d

\* get's except branch: cache_path.unlink(missing_ok=True)
LoadFailed(d, h) == Del(d, h)

\* What the durable tier does to one call: the inputs of set and get.
\*   ok        every write and read works
\*   open_fail open(cache_path, 'wb') raises: the blob is untouched
\*   dump_fail pickle.dump raises after open truncated the file: an unreadable blob is left
\*   meta_fail the blob is written, _update_metadata raises
SetEnvs == {"ok", "open_fail", "dump_fail", "meta_fail"}
GetEnvs == {"ok", "meta_fail"}

\* QueryCache.get(h) as one call. found: where a live entry was found; metaFailed:
\* _update_metadata was called and raised; blob: what step 2 met on disk.
GetOutcome(h, env) ==
    LET inMem == h \in DOMAIN memory_cache
        base == [mem |-> Mem, disk |-> disk, meta |-> meta, result |-> NoResult,
                 raised |-> FALSE, found |-> "none", metaFailed |-> FALSE, blob |-> "unread"]
    IN  IF inMem /\ Fresh(memory_timestamps[h])
        THEN \* 1. memory hit
             LET m1 == UpdateMemoryLru(Mem, h)
             IN  IF env = "meta_fail"
                 THEN [base EXCEPT !.mem = m1, !.raised = TRUE, !.found = "memory",
                                   !.metaFailed = TRUE]
                 ELSE IF h \in DOMAIN m1.cache
                      THEN [base EXCEPT !.mem = m1, !.meta = UpdateMetadata(meta, h, now),
                                        !.result = m1.cache[h], !.found = "memory"]
                      ELSE [base EXCEPT !.mem = m1, !.meta = UpdateMetadata(meta, h, now),
                                        !.raised = TRUE, !.found = "memory"]
        ELSE LET \* expired in memory: dropped from the three structures
                 m0 == IF inMem
                       THEN [DropEntry(Mem, h) EXCEPT
                                !.lru = IF Has(memory_lru, h) THEN ListRemove(memory_lru, h)
                                                              ELSE memory_lru]
                       ELSE Mem
                 b0 == [base EXCEPT !.mem = m0]
             IN  \* 2. the blob
                 IF h \notin DOMAIN disk THEN [b0 EXCEPT !.blob = "absent"]
                 ELSE IF ~Fresh(disk[h].mtime)
                      THEN [b0 EXCEPT !.disk = Del(disk, h), !.blob = "expired"]
                 ELSE IF disk[h].data = Corrupt
                      THEN [b0 EXCEPT !.disk = LoadFailed(disk, h), !.blob = "corrupt"]
                 ELSE LET m1 == UpdateMemoryLru(Store(m0, h, disk[h].data), h)
                      IN  IF env = "meta_fail"
                          THEN [b0 EXCEPT !.mem = m1, !.disk = LoadFailed(disk, h),
                                          !.found = "disk", !.metaFailed = TRUE,
                                          !.blob = "loaded"]
                          ELSE [b0 EXCEPT !.mem = m1, !.meta = UpdateMetadata(meta, h, now),
                                          !.result = disk[h].data, !.found = "disk",
                                          !.blob = "loaded"]

\* set with the metadata update moved out of the try block
SetOutcome_MetaOutsideTry(h, result, env) ==
    LET m1 == UpdateMemoryLru(Store(Mem, h, result), h)
        blob == [data |-> result, mtime |-> now]
    IN  [mem |-> m1,
         disk |-> IF env \in {"ok", "meta_fail"} THEN Put(disk, h, blob)
                  ELSE IF env = "dump_fail" THEN Put(disk, h, [data |-> Corrupt, mtime |-> now])
                  ELSE disk,
         meta |-> IF env = "ok" THEN UpdateMetadata(meta, h, now) ELSE meta,
         raised |-> env = "meta_fail"]

\* QueryCache.set(h, result) as one call: memory first, then the try block
\* (blob, then metadata), whose exceptions are caught and printed.
SetOutcome(h, result, env) ==
    LET m1 == UpdateMemoryLru(Store(Mem, h, result), h)
        blob == [data |-> result, mtime |-> now]
    IN  [mem |-> m1,
         disk |-> IF env \in {"ok", "meta_fail"} THEN Put(disk, h, blob)
                  ELSE IF env = "dump_fail" THEN Put(disk, h, [data |-> Corrupt, mtime |-> now])
                  ELSE disk,
         meta |-> IF env = "ok" THEN UpdateMetadata(meta, h, now) ELSE meta,
         raised |-> FALSE]

\* a clear whose full branch forgets the durable tier (blobs and rows stay)
ClearOutcome_KeepDurable(older_than) ==
    [mem |-> [cache |-> Empty, ts |-> Empty, lru |-> <<>>], disk |-> disk, meta |-> meta]

\* clear(older_than): older_than = 0 stands for None and for 0, both falsy
Olders == 0..MaxOlder
ClearOutcome(older_than) ==
    IF older_than = 0
    THEN [mem |-> [cache |-> Empty, ts |-> Empty, lru |-> <<>>], disk |-> Empty, meta |-> Empty]
    ELSE LET keys_to_remove == { k \in DOMAIN memory_timestamps :
                                   (now - memory_timestamps[k]) > older_than }
             cutoff_time == now - older_than
             old_hashes == { k \in DOMAIN meta : meta[k].last_accessed < cutoff_time }
             RECURSIVE RemoveAll(_, _)
             RemoveAll(l, ks) ==
                 IF ks = {} THEN l
                 ELSE LET k == CHOOSE x \in ks : TRUE
                      IN  RemoveAll(IF Has(l, k) THEN ListRemove(l, k) ELSE l, ks \ {k})
         IN  [mem |-> [cache |-> [k \in DOMAIN memory_cache \ keys_to_remove |-> memory_cache[k]],
                       ts |-> [k \in DOMAIN memory_timestamps \ keys_to_remove |->
                                  memory_timestamps[k]],
                       lru |-> RemoveAll(memory_lru, keys_to_remove)],
              disk |-> [k \in DOMAIN disk \ old_hashes |-> disk[k]],
              meta |-> [k \in DOMAIN meta \ old_hashes |-> meta[k]]]

(* ------------------------------ history -------------------------------- *)
\* move h to the end of the order of last uses
Touch(order, h) == Append(IF Has(order, h) THEN ListRemove(order, h) ELSE order, h)
NoCall == [op |-> "none", call |-> {}, h |-> NoHash, payload |-> NoResult, env |-> "ok",
           result |-> NoResult, raised |-> FALSE, found |-> "none", metaFailed |-> FALSE,
           blob |-> "unread", evicted |-> {}, at |-> 0, older |-> 0]

(* ------------------------------ actions -------------------------------- *)
TTLs == 0..MaxTtl
Limits == 0..MaxLimit

Init ==
    /\ memory_cache = Empty /\ memory_timestamps = Empty /\ memory_lru = <<>>
    /\ memory_limit \in Limits
    /\ ttl \in TTLs
    /\ disk = Empty /\ subdirs = {} /\ meta = Empty
    /\ now = 0
    /\ last = NoCall /\ ops = 0 /\ faults = 0
    /\ setAt = [h \in Hashes |-> -1]
    /\ setBy = [h \in Hashes |-> {}]
    /\ useOrder = <<>>
    /\ lruEvicted = {}
    /\ pc = Idle /\ loc = [t \in Threads |-> NoLocals] /\ calls = [t \in Threads |-> 0]
    /\ NoAnalyzer

Install(o) ==
    /\ memory_cache' = o.mem.cache
    /\ memory_timestamps' = o.mem.ts
    /\ memory_lru' = o.mem.lru
    /\ disk' = o.disk
    /\ meta' = o.meta
    /\ UNCHANGED <<memory_limit, ttl, now>>

\* the hashes the call dropped from memory through the LRU branch of _update_memory_lru
LruVictims(o, h) == (DOMAIN memory_cache \cup {h}) \ DOMAIN o.mem.cache

Set(call, result, env) ==
    /\ ops < MaxOps
    /\ env # "ok" => faults < MaxFaults
    /\ faults' = IF env # "ok" THEN faults + 1 ELSE faults
    /\ \E h \in {HashOf(call)} : \E o \in {SetOutcome(h, result, env)} :
           /\ Install(o)
           /\ last' = [NoCall EXCEPT !.op = "set", !.call = {call}, !.h = h, !.payload = result,
                                     !.env = env, !.raised = o.raised,
                                     !.evicted = LruVictims(o, h), !.at = now]
           /\ subdirs' = subdirs \cup {Subdir(h)}
           /\ setAt' = [setAt EXCEPT ![h] = now]
           /\ setBy' = [setBy EXCEPT ![h] = {call}]
           /\ useOrder' = Touch(useOrder, h)
           /\ lruEvicted' = (lruEvicted \ {h}) \cup LruVictims(o, h)
    /\ ops' = ops + 1
    /\ UNCHANGED <<threadVars, analyzerVars>>

Get(call, env) ==
    /\ ops < MaxOps
    /\ env # "ok" => faults < MaxFaults
    /\ \E h \in {HashOf(call)} : \E o \in {GetOutcome(h, env)} :
        \E victims \in {IF o.found = "none" THEN {} ELSE LruVictims(o, h)} :
           /\ Install(o)
           /\ last' = [NoCall EXCEPT !.op = "get", !.call = {call}, !.h = h,
                                     !.env = IF o.metaFailed THEN "meta_fail" ELSE "ok",
                                     !.result = o.result, !.raised = o.raised,
                                     !.found = o.found, !.metaFailed = o.metaFailed,
                                     !.blob = o.blob,
                                     !.evicted = victims, !.at = now]
           /\ subdirs' = IF o.found = "memory" THEN subdirs ELSE subdirs \cup {Subdir(h)}
           /\ useOrder' = IF o.found = "none" THEN useOrder ELSE Touch(useOrder, h)
           /\ lruEvicted' = (lruEvicted \ {h}) \cup victims
           /\ env # "ok" => o.metaFailed
           /\ faults' = IF o.metaFailed THEN faults + 1 ELSE faults
    /\ ops' = ops + 1
    /\ UNCHANGED <<setAt, setBy, threadVars, analyzerVars>>

Clear(older_than) ==
    /\ ops < MaxOps
    /\ \E o \in {ClearOutcome(older_than)} :
           /\ Install(o)
           /\ lruEvicted' = lruEvicted \cap DOMAIN o.disk
    /\ subdirs' = subdirs
    /\ last' = [NoCall EXCEPT !.op = "clear", !.at = now, !.older = older_than]
    /\ ops' = ops + 1
    /\ UNCHANGED <<faults, setAt, setBy, useOrder, threadVars, analyzerVars>>

\* time passes between calls
Tick ==
    /\ now < MaxTime
    /\ now' = now + 1
    /\ UNCHANGED <<memory_cache, memory_timestamps, memory_lru, memory_limit, ttl, disk, subdirs,
                   meta>>
    /\ UNCHANGED <<histVars, threadVars, analyzerVars>>

Next ==
    \/ \E c \in Calls, r \in Payloads, e \in SetEnvs : Set(c, r, e)
    \/ \E c \in Calls, e \in GetEnvs : Get(c, e)
    \/ \E o \in Olders : Clear(o)
    \/ Tick

Spec == Init /\ [][Next]_vars

(* ------------------------ claims: sequential ---------------------------- *)
\* a step that is one call
CallStep == ops' = ops + 1
Last(l) == l[Len(l)]
\* the element of S used longest ago
Oldest(order, S) == order[CHOOSE i \in 1..Len(order) :
                             order[i] \in S /\ \A j \in 1..(i - 1) : order[j] \notin S]

\* C1: with ttl > 0 and the durable tier working for both calls, a get that follows
\* a set at once (no call and no time between) with the same arguments returns the
\* payload of that set, whatever memory_limit is and whatever came before.
C1_RoundTrip ==
    [][(/\ last.op = "set" /\ last.env = "ok" /\ last.at = now /\ ttl > 0
        /\ last'.op = "get" /\ last'.call = last.call /\ last'.env = "ok")
       => (last'.result = last.payload /\ ~last'.raised)]_vars

\* C1 happens: a payload read back from the durable tier by the second call of a
\* history, at the time of its set, with no room in memory.
C1_Witness ==
    /\ ops = 2 /\ last.op = "get" /\ last.env = "ok" /\ memory_limit = 0
    /\ setAt[last.h] = now /\ last.result \in Payloads /\ last.found = "disk"

\* C2: a get issued ttl or more after the last set of its key returns a miss.
C2_TtlExpiry ==
    (last.op = "get" /\ setAt[last.h] >= 0 /\ (last.at - setAt[last.h]) >= ttl)
        => last.result = NoResult

\* C3: after every call the memory tier holds at most memory_limit entries, and the
\* map, the timestamps and the LRU list hold the same keys, none twice in the list.
C3_Capacity ==
    /\ Cardinality(DOMAIN memory_cache) <= memory_limit
    /\ DOMAIN memory_timestamps = DOMAIN memory_cache
    /\ Elems(memory_lru) = DOMAIN memory_cache
    /\ NoDup(memory_lru)

\* C3 happens: a set that found two entries in a memory tier of two, and evicted.
C3_Witness ==
    /\ last.op = "set" /\ last.evicted # {} /\ memory_limit = 2
    /\ Cardinality(DOMAIN memory_cache) = 2

\* C4: an insertion (set of a key not in memory, or promotion from the durable tier)
\* into a memory tier holding memory_limit entries removes exactly one entry, the one
\* used longest ago; a set or get hit of a key in memory removes none; both leave the
\* key the most recently used.
C4_StrictLru ==
    [][(CallStep /\ (last'.op = "set" \/ (last'.op = "get" /\ last'.found # "none")))
       => LET h == last'.h
              S == DOMAIN memory_cache \cup {h}
          IN  IF h \in DOMAIN memory_cache
              THEN /\ DOMAIN memory_cache' = DOMAIN memory_cache
                   /\ Last(memory_lru') = h
              ELSE IF Cardinality(DOMAIN memory_cache) = memory_limit
              THEN /\ DOMAIN memory_cache' = S \ {Oldest(useOrder', S)}
                   /\ (h \in DOMAIN memory_cache' => Last(memory_lru') = h)
              ELSE /\ DOMAIN memory_cache' = S
                   /\ Last(memory_lru') = h]_vars

\* C4 happens: a set into a full memory tier of two evicted one entry and kept an
\* entry that had been used again after its first set.
C4_Witness ==
    /\ last.op = "set" /\ memory_limit = 2 /\ Cardinality(last.evicted) = 1
    /\ last.h \notin last.evicted
    /\ \E k \in DOMAIN memory_cache \ {last.h} :
          k \in DOMAIN meta /\ meta[k].hit_count >= 2

\* C5: an LRU eviction by a call for another key leaves the victim's blob and
\* metadata row as they were, and a
\* get for an evicted key whose blob is within TTL returns the blob's payload and
\* puts it back in memory as the most recently used (memory_limit >= 1: with no
\* capacity nothing can be put back).
C5_EvictionMemoryOnly ==
    [][CallStep =>
        /\ \A k \in last'.evicted \ {last'.h} :
              /\ k \in DOMAIN disk => (k \in DOMAIN disk' /\ disk'[k] = disk[k])
              /\ k \in DOMAIN meta => (k \in DOMAIN meta' /\ meta'[k] = meta[k])
        /\ (/\ last'.op = "get" /\ memory_limit >= 1
            /\ last'.h \in lruEvicted /\ last'.h \notin DOMAIN memory_cache
            /\ last'.h \in DOMAIN disk /\ disk[last'.h].data \in Payloads
            /\ Fresh(disk[last'.h].mtime))
           => /\ last'.result = disk[last'.h].data
              /\ last'.h \in DOMAIN memory_cache'
              /\ memory_cache'[last'.h] = disk[last'.h].data
              /\ Last(memory_lru') = last'.h]_vars

\* C6 as stated: a set whose blob write or metadata update fails does not raise, and
\* memory holds the new payload for the key when it returns.
C6_SoftWrite ==
    (last.op = "set" /\ last.env # "ok")
        => /\ ~last.raised
           /\ last.h \in DOMAIN memory_cache
           /\ memory_cache[last.h] = last.payload

\* C6 amended: a set whose blob write or metadata update fails does not raise; memory
\* holds the new payload for the key when memory_limit >= 1, and nothing when
\* memory_limit = 0.
C6_SoftWriteAmended ==
    (last.op = "set" /\ last.env # "ok")
        => /\ ~last.raised
           /\ memory_limit >= 1 =>
                 (last.h \in DOMAIN memory_cache /\ memory_cache[last.h] = last.payload)
           /\ memory_limit = 0 => DOMAIN memory_cache = {}

\* C6 happens: a set whose pickle.dump failed returned with the payload in memory.
C6_Witness ==
    /\ last.op = "set" /\ last.env = "dump_fail" /\ memory_limit >= 1
    /\ last.h \in DOMAIN memory_cache /\ memory_cache[last.h] = last.payload
    /\ disk[last.h].data = Corrupt

\* C7: a get whose metadata update fails still returns the hit it found, does not
\* raise, and does not delete the blob.
C7_MetadataBestEffort ==
    [][(CallStep /\ last'.op = "get" /\ last'.metaFailed)
       => /\ ~last'.raised
          /\ last'.result = (IF last'.found = "memory" THEN memory_cache[last'.h]
                                                       ELSE disk[last'.h].data)
          /\ last'.h \in DOMAIN disk => (last'.h \in DOMAIN disk'
                                          /\ disk'[last'.h] = disk[last'.h])]_vars

\* C8 as stated: a get for a key whose blob is within TTL and unreadable returns a
\* miss, does not raise, deletes the blob and leaves memory without the key.
C8_CorruptBlob ==
    [][(/\ CallStep /\ last'.op = "get"
        /\ last'.h \in DOMAIN disk /\ disk[last'.h].data = Corrupt
        /\ Fresh(disk[last'.h].mtime))
       => /\ last'.result = NoResult /\ ~last'.raised
          /\ last'.h \notin DOMAIN disk'
          /\ last'.h \notin DOMAIN memory_cache']_vars

\* C8 amended: the same, for a get that reaches the durable tier, that is when
\* memory holds no unexpired entry for the key.
C8_CorruptBlobAmended ==
    [][(/\ CallStep /\ last'.op = "get"
        /\ last'.h \in DOMAIN disk /\ disk[last'.h].data = Corrupt
        /\ Fresh(disk[last'.h].mtime)
        /\ ~(last'.h \in DOMAIN memory_cache /\ Fresh(memory_timestamps[last'.h])))
       => /\ last'.result = NoResult /\ ~last'.raised
          /\ last'.h \notin DOMAIN disk'
          /\ last'.h \notin DOMAIN memory_cache']_vars

\* C8 happens: a get met an unreadable blob within TTL and returned a miss.
C8_Witness ==
    /\ last.op = "get" /\ last.blob = "corrupt" /\ last.result = NoResult
    /\ last.h \notin DOMAIN disk /\ last.h \notin DOMAIN memory_cache

(* --------------- QueryCache called by several threads ------------------ *)
\* One step is one statement of get, set, clear() or of the helpers they call, on
\* what the threads share: the three memory structures, the blob files and their
\* subdirectories, and cache_metadata.db. The code takes no lock of its own, so the
\* threads' steps interleave freely; clear is the call without older_than; the
\* calls are short, so the clock stands still: an entry is expired only when ttl = 0.
\* An exception raised inside a try block goes to that block's handler; any other
\* exception leaves the call, and the thread stays at "raised".
\* The threads store one payload, so two writers of one file leave that payload.
Goto(t, label) == pc' = [pc EXCEPT ![t] = label]
At(t, label) == pc[t] = label
Memory == <<memory_cache, memory_timestamps, memory_lru>>
Files == <<disk, subdirs>>
Rows == <<meta, db_lock>>
Fixed == <<memory_limit, ttl, now>>
Others == <<histVars, tplVars, query_log, query_patterns, lres>>

\* the calls and payloads of the threads, and the caches they share
ConcCalls == { c \in Calls : c.collection = {} }
ConcPayloads == {"p1"}
ConcLimits == {1}
ConcTTLs == {0, 1}

InitConc ==
    /\ memory_cache = Empty /\ memory_timestamps = Empty /\ memory_lru = <<>>
    /\ memory_limit \in ConcLimits
    /\ ttl \in ConcTTLs
    /\ disk = Empty /\ subdirs = {} /\ meta = Empty
    /\ now = 0
    /\ last = NoCall /\ ops = 0 /\ faults = 0
    /\ setAt = [h \in Hashes |-> -1]
    /\ setBy = [h \in Hashes |-> {}]
    /\ useOrder = <<>>
    /\ lruEvicted = {}
    /\ pc = Idle /\ loc = [t \in Threads |-> NoLocals] /\ calls = [t \in Threads |-> 0]
    /\ NoAnalyzer

\* where an exception of _update_memory_lru goes: to get's handler (line 186) when get
\* called it for a loaded blob (line 181), out of the call from lines 157 and 211
LruRaise(t) == Goto(t, IF loc[t].ret = "d4" THEN "e6" ELSE "raised")

\* where an exception of _update_metadata goes: to set's handler (lines 223-224), which
\* prints it and lets set return; to get's handler (line 186) for a loaded blob; out of
\* the call from a memory hit (line 158)
MetaRaise(t) ==
    Goto(t, IF loc[t].ret = "s3" THEN "idle" ELSE IF loc[t].ret = "d4" THEN "e6" ELSE "raised")

\* unlink of the files hs: a thread that holds one of them open keeps the file it
\* opened, with the content it has now, shared with the other threads that hold it
Unlinked(hs) ==
    [u \in Threads |->
        IF loc[u].fd = "open" /\ loc[u].h \in hs
        THEN [loc[u] EXCEPT !.fd = "unlinked", !.snap = disk[loc[u].h].data,
                            !.group = { v \in Threads : loc[v].fd = "open"
                                                        /\ loc[v].h = loc[u].h }]
        ELSE loc[u]]

StartSet(t, call, result) ==
    /\ At(t, "idle") /\ calls[t] < MaxCalls
    /\ calls' = [calls EXCEPT ![t] = @ + 1]
    /\ loc' = [loc EXCEPT ![t] = [NoLocals EXCEPT !.op = "set", !.h = HashOf(call),
                                                  !.result = result]]
    /\ Goto(t, "s1")
    /\ UNCHANGED <<Memory, Files, Rows, Fixed, Others>>

StartGet(t, call) ==
    /\ At(t, "idle") /\ calls[t] < MaxCalls
    /\ calls' = [calls EXCEPT ![t] = @ + 1]
    /\ loc' = [loc EXCEPT ![t] = [NoLocals EXCEPT !.op = "get", !.h = HashOf(call)]]
    /\ Goto(t, "g1")
    /\ UNCHANGED <<Memory, Files, Rows, Fixed, Others>>

StartClear(t) ==
    /\ At(t, "idle") /\ calls[t] < MaxCalls
    /\ calls' = [calls EXCEPT ![t] = @ + 1]
    /\ loc' = [loc EXCEPT ![t] = [NoLocals EXCEPT !.op = "clear"]]
    /\ Goto(t, "c1")
    /\ UNCHANGED <<Memory, Files, Rows, Fixed, Others>>

\* self.memory_cache[query_hash] = result            (set, and get's promotion)
WriteCache(t) ==
    /\ At(t, "s1") \/ At(t, "d2")
    /\ memory_cache' = Put(memory_cache, loc[t].h, loc[t].result)
    /\ Goto(t, IF At(t, "s1") THEN "s2" ELSE "d3")
    /\ UNCHANGED <<memory_timestamps, memory_lru, Files, Rows, Fixed, Others, loc, calls>>

\* self.memory_timestamps[query_hash] = time.time(); then _update_memory_lru is entered
WriteTimestamp(t) ==
    /\ At(t, "s2") \/ At(t, "d3")
    /\ memory_timestamps' = Put(memory_timestamps, loc[t].h, now)
    /\ loc' = [loc EXCEPT ![t].ret = IF At(t, "s2") THEN "s3" ELSE "d4"]
    /\ Goto(t, "u1")
    /\ UNCHANGED <<memory_cache, memory_lru, Files, Rows, Fixed, Others, calls>>

\* if query_hash in self.memory_lru:
LruTest(t) ==
    /\ At(t, "u1")
    /\ Goto(t, IF Has(memory_lru, loc[t].h) THEN "u2" ELSE "u3")
    /\ UNCHANGED <<Memory, Files, Rows, Fixed, Others, loc, calls>>

\* self.memory_lru.remove(query_hash): ValueError when the element is gone
LruRemove(t) ==
    /\ At(t, "u2") \/ At(t, "g8")
    /\ IF Has(memory_lru, loc[t].h)
       THEN /\ memory_lru' = ListRemove(memory_lru, loc[t].h)
            /\ Goto(t, IF At(t, "u2") THEN "u3" ELSE "d1")
       ELSE /\ LruRaise(t)
            /\ UNCHANGED memory_lru
    /\ UNCHANGED <<memory_cache, memory_timestamps, Files, Rows, Fixed, Others, loc, calls>>

\* self.memory_lru.append(query_hash)
LruAppend(t) ==
    /\ At(t, "u3")
    /\ memory_lru' = Append(memory_lru, loc[t].h)
    /\ Goto(t, "u4")
    /\ UNCHANGED <<memory_cache, memory_timestamps, Files, Rows, Fixed, Others, loc, calls>>

\* if len(self.memory_lru) > self.memory_limit:
LruLimitTest(t) ==
    /\ At(t, "u4")
    /\ Goto(t, IF Len(memory_lru) > memory_limit THEN "u5" ELSE loc[t].ret)
    /\ UNCHANGED <<Memory, Files, Rows, Fixed, Others, loc, calls>>

\* oldest_hash = self.memory_lru.pop(0): IndexError on an empty list
LruPop(t) ==
    /\ At(t, "u5")
    /\ IF memory_lru # <<>>
       THEN /\ memory_lru' = Tail(memory_lru)
            /\ loc' = [loc EXCEPT ![t].oldest = Head(memory_lru)]
            /\ Goto(t, "u6")
       ELSE /\ LruRaise(t)
            /\ UNCHANGED <<memory_lru, loc>>
    /\ UNCHANGED <<memory_cache, memory_timestamps, Files, Rows, Fixed, Others, calls>>

\* if oldest_hash in self.memory_cache:
LruVictimTest(t) ==
    /\ At(t, "u6")
    /\ Goto(t, IF loc[t].oldest \in DOMAIN memory_cache THEN "u7" ELSE loc[t].ret)
    /\ UNCHANGED <<Memory, Files, Rows, Fixed, Others, loc, calls>>

\* del self.memory_cache[k]: KeyError when the key is gone   (k: oldest_hash, or the
\* expired query_hash in get, where no try block is around it)
DelCache(t) ==
    /\ At(t, "u7") \/ At(t, "g5")
    /\ \E k \in {IF At(t, "u7") THEN loc[t].oldest ELSE loc[t].h} :
          IF k \in DOMAIN memory_cache
          THEN /\ memory_cache' = Del(memory_cache, k)
               /\ Goto(t, IF At(t, "u7") THEN "u8" ELSE "g6")
          ELSE /\ IF At(t, "u7") THEN LruRaise(t) ELSE Goto(t, "raised")
               /\ UNCHANGED memory_cache
    /\ UNCHANGED <<memory_timestamps, memory_lru, Files, Rows, Fixed, Others, loc, calls>>

\* del self.memory_timestamps[k]: KeyError when the key is gone
DelTimestamp(t) ==
    /\ At(t, "u8") \/ At(t, "g6")
    /\ \E k \in {IF At(t, "u8") THEN loc[t].oldest ELSE loc[t].h} :
          IF k \in DOMAIN memory_timestamps
          THEN /\ memory_timestamps' = Del(memory_timestamps, k)
               /\ Goto(t, IF At(t, "u8") THEN loc[t].ret ELSE "g7")
          ELSE /\ IF At(t, "u8") THEN LruRaise(t) ELSE Goto(t, "raised")
               /\ UNCHANGED memory_timestamps
    /\ UNCHANGED <<memory_cache, memory_lru, Files, Rows, Fixed, Others, loc, calls>>

\* cache_path = self._get_cache_path(query_hash): mkdir(exist_ok=True)   (set and get)
MakeSubdir(t) ==
    /\ At(t, "s3") \/ At(t, "d1")
    /\ subdirs' = subdirs \cup {Subdir(loc[t].h)}
    /\ Goto(t, IF At(t, "s3") THEN "s4" ELSE "e1")
    /\ UNCHANGED <<Memory, disk, Rows, Fixed, Others, loc, calls>>

\* with open(cache_path, 'wb') as f: the file is created, or emptied when it is there
SetOpen(t) ==
    /\ At(t, "s4")
    /\ disk' = Put(disk, loc[t].h, [data |-> Corrupt, mtime |-> now])
    /\ loc' = [loc EXCEPT ![t].fd = "open"]
    /\ Goto(t, "s5")
    /\ UNCHANGED <<Memory, subdirs, Rows, Fixed, Others, calls>>

\* pickle.dump(result, f) and the close: written to the file that was opened, which is
\* the blob unless it was unlinked since
SetDump(t) ==
    /\ At(t, "s5")
    /\ IF loc[t].fd = "open"
       THEN /\ disk' = Put(disk, loc[t].h, [data |-> loc[t].result, mtime |-> now])
            /\ loc' = [loc EXCEPT ![t].fd = "none"]
       ELSE /\ disk' = disk
            /\ loc' = [u \in Threads |->
                         IF u = t THEN [loc[t] EXCEPT !.fd = "none"]
                         ELSE IF u \in loc[t].group /\ loc[u].fd = "unlinked"
                                 /\ loc[u].h = loc[t].h
                              THEN [loc[u] EXCEPT !.snap = loc[t].result]
                              ELSE loc[u]]
    /\ Goto(t, "m1")
    /\ UNCHANGED <<Memory, subdirs, Rows, Fixed, Others, calls>>

\* _update_metadata: connect; cursor.execute("SELECT hit_count ... WHERE query_hash = ?")
\* (called by set after the dump, by get on a memory hit and for a loaded blob). The
\* statement has stepped to the row when there is one, and then holds sqlite's SHARED
\* lock until fetchone finishes it.
MetaSelect(t) ==
    /\ At(t, "m1") \/ At(t, "g4") \/ At(t, "d4")
    /\ CanRead(t)
    /\ loc' = [loc EXCEPT ![t].hits = IF loc[t].h \in DOMAIN meta
                                      THEN {meta[loc[t].h].hit_count} ELSE {}]
    /\ Goto(t, "mf")
    /\ UNCHANGED <<Memory, Files, Rows, Fixed, Others, calls>>

\* result = cursor.fetchone(): the statement ends and gives up the SHARED lock
MetaFetch(t) ==
    /\ At(t, "mf")
    /\ Goto(t, "m2")
    /\ UNCHANGED <<Memory, Files, Rows, Fixed, Others, loc, calls>>

\* another connection is in a SELECT that found a row and has not fetched it
Reading(t) == \E u \in Threads \ {t} : At(u, "mf") /\ loc[u].hits # {}

\* UPDATE ... SET last_accessed, hit_count = result[0] + 1 (of no row when the row is
\* gone), or INSERT ... hit_count 1, which raises IntegrityError when the hash has a
\* row by now. The statement opens a transaction and takes the write lock; after the
\* IntegrityError the connection keeps it: through get's handler, then dropped.
MetaWrite(t) ==
    /\ At(t, "m2") /\ CanWrite(t)
    /\ db_lock' = IF loc[t].hits = {} /\ loc[t].h \in DOMAIN meta /\ loc[t].ret # "d4"
                  THEN Dropped ELSE t
    /\ IF loc[t].hits # {}
       THEN /\ loc' = [loc EXCEPT ![t].row =
                         IF loc[t].h \in DOMAIN meta
                         THEN { [meta[loc[t].h] EXCEPT
                                   !.hit_count = (CHOOSE n \in loc[t].hits : TRUE) + 1,
                                   !.last_accessed = now] }
                         ELSE {}]
            /\ Goto(t, "m3")
       ELSE IF loc[t].h \in DOMAIN meta
       THEN /\ loc' = loc
            /\ MetaRaise(t)
       ELSE /\ loc' = [loc EXCEPT ![t].row =
                         { [hit_count |-> 1, created_at |-> now, last_accessed |-> now] }]
            /\ Goto(t, "m3")
    /\ UNCHANGED <<Memory, Files, meta, Fixed, Others, calls>>

\* the wait for a lock ends in OperationalError (database is locked): the SELECT of
\* _update_metadata behind a PENDING lock, its UPDATE or INSERT and clear's DELETE
\* behind the write lock
MetaBusy(t) ==
    /\ \/ (At(t, "m1") \/ At(t, "g4") \/ At(t, "d4")) /\ ~CanRead(t)
       \/ (At(t, "m2") \/ At(t, "c7")) /\ ~CanWrite(t)
    /\ IF At(t, "c7") THEN Goto(t, "raised") ELSE MetaRaise(t)
    /\ UNCHANGED <<Memory, Files, Rows, Fixed, Others, loc, calls>>

\* conn.commit(); conn.close(); _update_metadata returns: set returns, get returns
\* the loaded result or goes on to line 160. The commit needs the database to itself:
\* it waits while another connection's SELECT holds the SHARED lock.
MetaCommit(t) ==
    /\ At(t, "m3") /\ ~Reading(t)
    /\ meta' = IF loc[t].row = {} THEN meta
               ELSE Put(meta, loc[t].h, CHOOSE r \in loc[t].row : TRUE)
    /\ db_lock' = 0
    /\ Goto(t, IF loc[t].ret = "g4" THEN "g9" ELSE "idle")
    /\ UNCHANGED <<Memory, Files, Fixed, Others, loc, calls>>

\* the commit's wait behind a SELECT ends in OperationalError (database is locked), in
\* _update_metadata (line 121) and in clear (line 296): nothing is written, and the
\* connection, never closed, keeps its transaction with the PENDING lock
CommitBusy(t) ==
    /\ At(t, "m3") \/ At(t, "c8")
    /\ Reading(t)
    /\ db_lock' = IF At(t, "m3") /\ loc[t].ret = "d4" THEN Pending(t) ELSE DroppedPending
    /\ IF At(t, "c8") THEN Goto(t, "raised") ELSE MetaRaise(t)
    /\ UNCHANGED <<Memory, Files, meta, Fixed, Others, loc, calls>>

\* the garbage collector closes a dropped connection: its transaction is rolled back
\* and its lock released
CloseDropped ==
    /\ db_lock \in {Dropped, DroppedPending}
    /\ db_lock' = 0
    /\ UNCHANGED <<Memory, Files, meta, Fixed, Others, threadVars>>

\* if query_hash in self.memory_cache:
GetTest(t) ==
    /\ At(t, "g1")
    /\ Goto(t, IF loc[t].h \in DOMAIN memory_cache THEN "g2" ELSE "d1")
    /\ UNCHANGED <<Memory, Files, Rows, Fixed, Others, loc, calls>>

\* timestamp = self.memory_timestamps[query_hash]: KeyError when the key is gone
GetTimestamp(t) ==
    /\ At(t, "g2")
    /\ IF loc[t].h \in DOMAIN memory_timestamps
       THEN /\ loc' = [loc EXCEPT ![t].timestamp = memory_timestamps[loc[t].h]]
            /\ Goto(t, "g3")
       ELSE /\ Goto(t, "raised")
            /\ UNCHANGED loc
    /\ UNCHANGED <<Memory, Files, Rows, Fixed, Others, calls>>

\* if (time.time() - timestamp) < self.ttl: a hit enters _update_memory_lru
GetTtlTest(t) ==
    /\ At(t, "g3")
    /\ IF Fresh(loc[t].timestamp)
       THEN /\ loc' = [loc EXCEPT ![t].ret = "g4"]
            /\ Goto(t, "u1")
       ELSE /\ Goto(t, "g5")
            /\ UNCHANGED loc
    /\ UNCHANGED <<Memory, Files, Rows, Fixed, Others, calls>>

\* return self.memory_cache[query_hash]: KeyError when the key is gone
GetReturnMemory(t) ==
    /\ At(t, "g9")
    /\ IF loc[t].h \in DOMAIN memory_cache
       THEN /\ loc' = [loc EXCEPT ![t].result = memory_cache[loc[t].h]]
            /\ Goto(t, "idle")
       ELSE /\ Goto(t, "raised")
            /\ UNCHANGED loc
    /\ UNCHANGED <<Memory, Files, Rows, Fixed, Others, calls>>

\* if query_hash in self.memory_lru:                 (expired in memory)
GetLruTest(t) ==
    /\ At(t, "g7")
    /\ Goto(t, IF Has(memory_lru, loc[t].h) THEN "g8" ELSE "d1")
    /\ UNCHANGED <<Memory, Files, Rows, Fixed, Others, loc, calls>>

\* if cache_path.exists(): without the blob get returns None
GetExists(t) ==
    /\ At(t, "e1")
    /\ Goto(t, IF loc[t].h \in DOMAIN disk THEN "e2" ELSE "idle")
    /\ UNCHANGED <<Memory, Files, Rows, Fixed, Others, loc, calls>>

\* file_age = time.time() - cache_path.stat().st_mtime; if file_age < self.ttl:
\* stat raises FileNotFoundError when the blob is gone, outside the try block
GetStat(t) ==
    /\ At(t, "e2")
    /\ Goto(t, IF loc[t].h \notin DOMAIN disk THEN "raised"
               ELSE IF Fresh(disk[loc[t].h].mtime) THEN "e3" ELSE "e5")
    /\ UNCHANGED <<Memory, Files, Rows, Fixed, Others, loc, calls>>

\* with open(cache_path, 'rb') as f: FileNotFoundError, inside the try block, when the
\* blob is gone
GetOpen(t) ==
    /\ At(t, "e3")
    /\ IF loc[t].h \in DOMAIN disk
       THEN /\ loc' = [loc EXCEPT ![t].fd = "open"]
            /\ Goto(t, "e4")
       ELSE /\ Goto(t, "e6")
            /\ UNCHANGED loc
    /\ UNCHANGED <<Memory, Files, Rows, Fixed, Others, calls>>

\* result = pickle.load(f) and the close: of the file that was opened; an emptied or
\* unreadable file raises
GetLoad(t) ==
    /\ At(t, "e4")
    /\ \E data \in {IF loc[t].fd = "open" THEN disk[loc[t].h].data ELSE loc[t].snap} :
          IF data = Corrupt
          THEN /\ loc' = [loc EXCEPT ![t].fd = "none"]
               /\ Goto(t, "e6")
          ELSE /\ loc' = [loc EXCEPT ![t].fd = "none", ![t].result = data]
               /\ Goto(t, "d2")
    /\ UNCHANGED <<Memory, Files, Rows, Fixed, Others, calls>>

\* else: cache_path.unlink(missing_ok=True); return None          (expired file)
GetUnlinkExpired(t) ==
    /\ At(t, "e5")
    /\ disk' = Del(disk, loc[t].h)
    /\ loc' = Unlinked({loc[t].h})
    /\ Goto(t, "idle")
    /\ UNCHANGED <<Memory, subdirs, Rows, Fixed, Others, calls>>

\* except Exception as e: print; cache_path.unlink(missing_ok=True); return None. The
\* connection of a failed _update_metadata is dropped with the exception.
GetExcept(t) ==
    /\ At(t, "e6")
    /\ disk' = Del(disk, loc[t].h)
    /\ loc' = [Unlinked({loc[t].h}) EXCEPT ![t].result = NoResult]
    /\ db_lock' = IF db_lock = t THEN Dropped
                  ELSE IF db_lock = Pending(t) THEN DroppedPending ELSE db_lock
    /\ Goto(t, "idle")
    /\ UNCHANGED <<Memory, subdirs, meta, Fixed, Others, calls>>

\* self.memory_cache.clear()
ClearCache(t) ==
    /\ At(t, "c1")
    /\ memory_cache' = Empty
    /\ Goto(t, "c2")
    /\ UNCHANGED <<memory_timestamps, memory_lru, Files, Rows, Fixed, Others, loc, calls>>

\* self.memory_timestamps.clear()
ClearTimestamps(t) ==
    /\ At(t, "c2")
    /\ memory_timestamps' = Empty
    /\ Goto(t, "c3")
    /\ UNCHANGED <<memory_cache, memory_lru, Files, Rows, Fixed, Others, loc, calls>>

\* self.memory_lru.clear()
ClearLru(t) ==
    /\ At(t, "c3")
    /\ memory_lru' = <<>>
    /\ Goto(t, "c4")
    /\ UNCHANGED <<memory_cache, memory_timestamps, Files, Rows, Fixed, Others, loc, calls>>

\* for subdir in self.cache_dir.iterdir(): the subdirectories are listed once
ClearList(t) ==
    /\ At(t, "c4")
    /\ loc' = [loc EXCEPT ![t].todo = subdirs]
    /\ Goto(t, "c5")
    /\ UNCHANGED <<Memory, Files, Rows, Fixed, Others, calls>>

\* the next subdirectory, in the order the file system gives them; if subdir.is_dir():
\* for cache_file in subdir.glob("*.cache"): its blobs are listed once
ClearGlob(t) ==
    /\ At(t, "c5")
    /\ IF loc[t].todo = {}
       THEN /\ Goto(t, "c7")
            /\ UNCHANGED loc
       ELSE \E d \in loc[t].todo :
               /\ loc' = [loc EXCEPT ![t].todo = @ \ {d},
                                     ![t].files = { h \in DOMAIN disk : Subdir(h) = d }]
               /\ Goto(t, "c6")
    /\ UNCHANGED <<Memory, Files, Rows, Fixed, Others, calls>>

\* cache_file.unlink(): FileNotFoundError when the blob is gone
ClearUnlink(t) ==
    /\ At(t, "c6")
    /\ IF loc[t].files = {}
       THEN /\ Goto(t, "c5")
            /\ UNCHANGED <<disk, loc>>
       ELSE \E f \in loc[t].files :
               IF f \in DOMAIN disk
               THEN /\ disk' = Del(disk, f)
                    /\ loc' = [Unlinked({f}) EXCEPT ![t].files = @ \ {f}]
                    /\ Goto(t, "c6")
               ELSE /\ Goto(t, "raised")
                    /\ UNCHANGED <<disk, loc>>
    /\ UNCHANGED <<Memory, subdirs, Rows, Fixed, Others, calls>>

\* connect; cursor.execute("DELETE FROM cache_metadata"): opens a transaction and takes
\* the write lock
ClearDelete(t) ==
    /\ At(t, "c7") /\ CanWrite(t)
    /\ db_lock' = t
    /\ Goto(t, "c8")
    /\ UNCHANGED <<Memory, Files, meta, Fixed, Others, loc, calls>>

\* conn.commit(); conn.close(); clear returns. The commit waits while another
\* connection's SELECT holds the SHARED lock.
ClearCommit(t) ==
    /\ At(t, "c8") /\ ~Reading(t)
    /\ meta' = Empty
    /\ db_lock' = 0
    /\ Goto(t, "idle")
    /\ UNCHANGED <<Memory, Files, Fixed, Others, loc, calls>>

NextConc ==
    \/ \E t \in Threads, c \in ConcCalls, r \in ConcPayloads : StartSet(t, c, r)
    \/ \E t \in Threads, c \in ConcCalls : StartGet(t, c)
    \/ \E t \in Threads : StartClear(t)
    \/ \E t \in Threads : WriteCache(t)
    \/ \E t \in Threads : WriteTimestamp(t)
    \/ \E t \in Threads : LruTest(t)
    \/ \E t \in Threads : LruRemove(t)
    \/ \E t \in Threads : LruAppend(t)
    \/ \E t \in Threads : LruLimitTest(t)
    \/ \E t \in Threads : LruPop(t)
    \/ \E t \in Threads : LruVictimTest(t)
    \/ \E t \in Threads : DelCache(t)
    \/ \E t \in Threads : DelTimestamp(t)
    \/ \E t \in Threads : MakeSubdir(t)
    \/ \E t \in Threads : SetOpen(t)
    \/ \E t \in Threads : SetDump(t)
    \/ \E t \in Threads : MetaSelect(t)
    \/ \E t \in Threads : MetaFetch(t)
    \/ \E t \in Threads : MetaWrite(t)
    \/ \E t \in Threads : MetaBusy(t)
    \/ \E t \in Threads : MetaCommit(t)
    \/ \E t \in Threads : CommitBusy(t)
    \/ CloseDropped
    \/ \E t \in Threads : GetTest(t)
    \/ \E t \in Threads : GetTimestamp(t)
    \/ \E t \in Threads : GetTtlTest(t)
    \/ \E t \in Threads : GetReturnMemory(t)
    \/ \E t \in Threads : GetLruTest(t)
    \/ \E t \in Threads : GetExists(t)
    \/ \E t \in Threads : GetStat(t)
    \/ \E t \in Threads : GetOpen(t)
    \/ \E t \in Threads : GetLoad(t)
    \/ \E t \in Threads : GetUnlinkExpired(t)
    \/ \E t \in Threads : GetExcept(t)
    \/ \E t \in Threads : ClearCache(t)
    \/ \E t \in Threads : ClearTimestamps(t)
    \/ \E t \in Threads : ClearLru(t)
    \/ \E t \in Threads : ClearList(t)
    \/ \E t \in Threads : ClearGlob(t)
    \/ \E t \in Threads : ClearUnlink(t)
    \/ \E t \in Threads : ClearDelete(t)
    \/ \E t \in Threads : ClearCommit(t)

SpecConc == InitConc /\ [][NextConc]_vars

(* ------------------------ claims: concurrency --------------------------- *)
\* C9: once every call has returned, the map, the timestamps and the LRU list hold
\* the same keys, the list holds none twice, and memory holds at most memory_limit
\* entries.
C9_MutualExclusion ==
    (\A t \in Threads : pc[t] = "idle")
        => /\ DOMAIN memory_timestamps = DOMAIN memory_cache
           /\ Elems(memory_lru) = DOMAIN memory_cache
           /\ NoDup(memory_lru)
           /\ Cardinality(DOMAIN memory_cache) <= memory_limit

\* C10: no get and no set ends by raising.
C10_NoHardError ==
    \A t \in Threads : pc[t] = "raised" => loc[t].op \notin {"get", "set"}
(* ------------------- claims: metadata, stats, clear --------------------- *)
\* get_stats: the three counts, as functions of the three collections they count
StatsOf(m, d, rows) ==
    [memory_cache_size |-> Cardinality(DOMAIN m),
     disk_cache_size   |-> Cardinality(DOMAIN d),
     total_entries     |-> Cardinality(DOMAIN rows)]
GetStats == StatsOf(memory_cache, disk, meta)

\* C11: after every completed call, every row of cache_metadata names a hash whose
\* blob file exists in the durable tier.
C11_MetadataHasBlob == \A h \in DOMAIN meta : h \in DOMAIN disk

\* the last call was a get that found the blob older than the TTL and returned None
TtlMiss == last.op = "get" /\ last.blob = "expired" /\ last.result = NoResult /\ ~last.raised

\* C12: after a get that missed because the TTL had elapsed, the entry is counted in
\* none of memory_cache_size, disk_cache_size and total_entries: get_stats reports
\* what it would report with the entry absent from memory, blobs and rows.
C12_ExpiredLeavesStats ==
    TtlMiss => GetStats = StatsOf(Del(memory_cache, last.h), Del(disk, last.h), Del(meta, last.h))

\* C13: clear() and clear(older_than=0) leave the memory map, the timestamps, the LRU
\* list, the blobs and the metadata rows all empty, and a get that follows is a miss.
C13_FullClear ==
    [][ /\ (CallStep /\ last'.op = "clear" /\ last'.older = 0)
            => /\ memory_cache' = Empty /\ memory_timestamps' = Empty /\ memory_lru' = <<>>
               /\ disk' = Empty /\ meta' = Empty
        /\ (CallStep /\ last.op = "clear" /\ last.older = 0 /\ last'.op = "get")
            => last'.result = NoResult /\ ~last'.raised ]_vars

\* a set, a full clear and a get of the same key, all at the same instant with a
\* positive TTL and no failure: only the clear between them explains the miss
C13_Witness ==
    /\ ops = 3 /\ faults = 0 /\ ttl > 0
    /\ last.op = "get" /\ last.result = NoResult
    /\ setAt[last.h] = now

\* C14: clear(older_than=T) with T > 0, in a history without failures, removes an entry
\* that has a metadata row from memory, from the blobs and from the rows exactly when
\* its last_accessed is older than now - T; so the tiers agree, and an entry that a
\* get hit within the last T seconds stays in each of them.
C14_SelectiveClear ==
    [][ (CallStep /\ last'.op = "clear" /\ last'.older > 0 /\ faults = 0)
        => \A h \in DOMAIN meta :
              LET old == meta[h].last_accessed < now - last'.older
              IN  /\ h \in DOMAIN memory_cache => (h \notin DOMAIN memory_cache' <=> old)
                  /\ h \in DOMAIN disk => (h \notin DOMAIN disk' <=> old)
                  /\ h \notin DOMAIN meta' <=> old ]_vars

\* C30: in a history without failures, the first set of a key creates its row with
\* hit_count 1, a get hit adds one to the hit_count of the row and stamps
\* last_accessed with the current time, a get miss changes no row, and the hit_count
\* of a row changes in no other call.
C30_HitAccounting ==
    [][ (CallStep /\ faults' = 0)
        => \A h \in Hashes :
             /\ (last'.op = "set" /\ last'.h = h /\ h \notin DOMAIN meta)
                => (h \in DOMAIN meta' /\ meta'[h].hit_count = 1)
             /\ (last'.op = "get" /\ last'.h = h /\ last'.found # "none" /\ h \in DOMAIN meta)
                => /\ meta'[h].hit_count = meta[h].hit_count + 1
                   /\ meta'[h].last_accessed = now
             /\ (last'.op = "get" /\ last'.found = "none") => meta' = meta
             /\ (h \in DOMAIN meta /\ h \in DOMAIN meta'
                 /\ meta'[h].hit_count # meta[h].hit_count)
                => (last'.op = "get" /\ last'.h = h /\ last'.found # "none") ]_vars

(* ------------------------- claims: key derivation ----------------------- *)
\* the cache called with several spellings of its queries, the durable tier working
NextKey ==
    \/ \E c \in KeyCalls, r \in Payloads : Set(c, r, "ok")
    \/ \E c \in KeyCalls : Get(c, "ok")
    \/ Tick

SpecKey == Init /\ [][NextKey]_vars

\* the words of a spelling, letter case folded: what is left of a query when case,
\* leading and trailing whitespace and the length of whitespace runs are ignored
RECURSIVE Words(_, _)
Words(q, word) ==
    IF q = <<>> THEN (IF word = <<>> THEN <<>> ELSE <<word>>)
    ELSE IF IsSpace(Head(q))
         THEN (IF word = <<>> THEN <<>> ELSE <<word>>) \o Words(Tail(q), <<>>)
         ELSE Words(Tail(q), Append(word, Lower(Head(q))))
SameSpelling(c1, c2) ==
    /\ Words(c1.query, <<>>) = Words(c2.query, <<>>)
    /\ c1.config_id = c2.config_id /\ c1.collection = c2.collection

\* C15: the key is a function of the arguments alone, equal for two spellings of a
\* query that differ in letter case, outer whitespace or the length of whitespace
\* runs; a get with one spelling within the TTL of a set with the other returns the
\* payload of that set.
C15_KeyNormalization ==
    [][ /\ \A c1, c2 \in KeyCalls : SameSpelling(c1, c2) => HashOf(c1) = HashOf(c2)
        /\ CallStep => \A c \in last'.call : last'.h = HashOf(c)
        /\ (/\ CallStep /\ last.op = "set" /\ last'.op = "get" /\ (now - last.at) < ttl
            /\ \A c1 \in last.call, c2 \in last'.call : SameSpelling(c1, c2))
           => last'.result = last.payload ]_vars

\* a get that hit with a spelling other than the one of the set before it
C15_Witness ==
    /\ ops = 2 /\ last.op = "get" /\ last.result \in Payloads
    /\ \E c \in last.call : c.query = <<" ", "A", " ", "\t", "B">>
    /\ \E c \in setBy[last.h] : c.query = <<"a", "\t", "B", " ">>

(* ====================== QueryTemplate, QueryAnalyzer ==================== *)
\* A text (a pattern, a query, an SQL template, a parameter) is a sequence of atoms.
\* An atom is a character the code looks at ("$", a digit, a blank, "," or "."), a
\* marker of a pattern, a word (a run of \w characters), or a stretch of SQL that
\* holds no "$" and begins with no digit. In every pattern and query of the model a
\* word is a whole run of \w characters and a pattern holds no character that is
\* special in a regular expression, so matching atom by atom is matching by character.
Blanks == {" ", "\t", "\n"}
Digits == {"0", "1", "2", "3", "4", "5", "6", "7", "8", "9"}
NonWord == Blanks \cup {",", ".", "$", "@", "-", "'", "\"", "("}
DigitOf == <<"0", "1", "2", "3", "4", "5", "6", "7", "8", "9">>

\* str(n) for n >= 0
RECURSIVE Decimal(_)
Decimal(n) == IF n < 10 THEN <<DigitOf[n + 1]>> ELSE Decimal(n \div 10) \o <<DigitOf[(n % 10) + 1]>>

\* re.IGNORECASE on the words of the model
LowerWord(a) ==
    IF a = "MUESTRA" THEN "muestra" ELSE IF a = "Todos" THEN "todos"
    ELSE IF a = "LOS" THEN "los" ELSE a

\* s.replace(old, new): every non-overlapping occurrence, scanning from the left
RECURSIVE Replace(_, _, _)
Replace(s, old, new) ==
    IF Len(s) < Len(old) THEN s
    ELSE IF SubSeq(s, 1, Len(old)) = old
         THEN new \o Replace(SubSeq(s, Len(old) + 1, Len(s)), old, new)
         ELSE <<Head(s)>> \o Replace(Tail(s), old, new)

\* _compile_pattern: the markers become capture groups, the rest stays literal
TableGroup == "(\\w+)"
ValueGroup == "([^,.\\s]+)"
NumberGroup == "(\\d+)"
Groups == {TableGroup, ValueGroup, NumberGroup}
CompilePattern(pattern) ==
    [i \in 1..Len(pattern) |->
        IF pattern[i] \in {"{table}", "{field}"} THEN TableGroup
        ELSE IF pattern[i] = "{value}" THEN ValueGroup
        ELSE IF pattern[i] = "{number}" THEN NumberGroup
        ELSE pattern[i]]

\* an atom all of whose characters the class of the group accepts
InClass(group, a) ==
    IF group = TableGroup THEN a \notin NonWord
    ELSE IF group = NumberGroup THEN a \in Digits
    ELSE a \notin Blanks \cup {",", "."}

\* re.match of ^regex$ against q: a group takes the longest run that lets the rest
\* match; "$" also matches before one trailing newline
RECURSIVE RegexMatch(_, _)
RegexMatch(regex, q) ==
    IF regex = <<>> THEN [matched |-> q \in {<<>>, <<"\n">>}, groups |-> <<>>]
    ELSE IF Head(regex) \in Groups
    THEN LET fits == { k \in 1..Len(q) :
                         /\ \A i \in 1..k : InClass(Head(regex), q[i])
                         /\ RegexMatch(Tail(regex), SubSeq(q, k + 1, Len(q))).matched }
         IN  IF fits = {} THEN [matched |-> FALSE, groups |-> <<>>]
             ELSE LET k == CHOOSE x \in fits : \A y \in fits : y <= x
                      rest == RegexMatch(Tail(regex), SubSeq(q, k + 1, Len(q)))
                  IN  [matched |-> TRUE, groups |-> <<SubSeq(q, 1, k)>> \o rest.groups]
    ELSE IF q # <<>> /\ LowerWord(Head(q)) = LowerWord(Head(regex))
         THEN RegexMatch(Tail(regex), Tail(q))
         ELSE [matched |-> FALSE, groups |-> <<>>]

\* QueryTemplate.matches: (True, captured groups) or (False, [])
Matches(template, query) == RegexMatch(CompilePattern(template.pattern), query)

\* the value generate_query returns: None, {"sql": text} or the find document
NoQuery == [kind |-> "none", text |-> <<>>]
\* f"${i+1}", counting the parameters from 1
Placeholder(i) == <<"$">> \o Decimal(i)

\* a loop that replaces nothing
Substitute_Nothing(sql_query, params, i) == sql_query

\* for i, param in enumerate(params): sql_query = sql_query.replace(placeholder, param)
RECURSIVE Substitute(_, _, _)
Substitute(sql_query, params, i) ==
    IF i > Len(params) THEN sql_query
    ELSE Substitute(Replace(sql_query, Placeholder(i), params[i]), params, i + 1)

\* the generator of the MongoDB built-in: params[0] raises IndexError on an empty list
GeneratorFunc(params) ==
    IF params = <<>> THEN [value |-> NoQuery, raised |-> TRUE]
    ELSE [value |-> [kind |-> "find", text |-> params[1]], raised |-> FALSE]

\* QueryTemplate.generate_query
GenerateQuery(template, params) ==
    IF template.generator_func # "none" THEN GeneratorFunc(params)
    ELSE IF template.sql_template = <<>> THEN [value |-> NoQuery, raised |-> FALSE]
    ELSE LET sql_query == Substitute(template.sql_template, params, 1)
         IN  IF \E i \in 1..Len(sql_query) : sql_query[i] = "$"
             THEN [value |-> NoQuery, raised |-> FALSE]
             ELSE [value |-> [kind |-> "sql", text |-> sql_query], raised |-> FALSE]

\* _load_default_templates: the built-ins, in the order of the code
LoadDefaultTemplates ==
    <<
      [pattern |-> <<"muestra", " ", "todos", " ", "los", " ", "{table}">>,
       sql_template |-> <<"SELECT * FROM ", "$", "1", " LIMIT 100">>,
       generator_func |-> "none", db_type |-> "sql", applicable_tables |-> {}],
      [pattern |-> <<"cuántos", " ", "{table}", " ", "hay">>,
       sql_template |-> <<"SELECT COUNT(*) FROM ", "$", "1">>,
       generator_func |-> "none", db_type |-> "sql", applicable_tables |-> {}],
      [pattern |-> <<"busca", " ", "el", " ", "{table}", " ", "con", " ", "id", " ", "{value}">>,
       sql_template |-> <<"SELECT * FROM ", "$", "1", " WHERE id = ", "$", "2">>,
       generator_func |-> "none", db_type |-> "sql", applicable_tables |-> {}],
      [pattern |-> <<"lista", " ", "los", " ", "{table}", " ", "ordenados", " ", "por", " ", "{field}">>,
       sql_template |-> <<"SELECT * FROM ", "$", "1", " ORDER BY ", "$", "2", " LIMIT 100">>,
       generator_func |-> "none", db_type |-> "sql", applicable_tables |-> {}],
      [pattern |-> <<"busca", " ", "el", " ", "usuario", " ", "con", " ", "email", " ", "{value}">>,
       sql_template |-> <<"SELECT * FROM users WHERE email = '", "$", "2", "'">>,
       generator_func |-> "none", db_type |-> "sql", applicable_tables |-> {}],
      [pattern |-> <<"cuántos", " ", "{table}", " ", "hay", " ", "por", " ", "{field}">>,
       sql_template |-> <<"SELECT ", "$", "2", ", COUNT(*) FROM ", "$", "1", " GROUP BY ", "$", "2">>,
       generator_func |-> "none", db_type |-> "sql", applicable_tables |-> {}],
      [pattern |-> <<"cuántos", " ", "usuarios", " ", "activos", " ", "hay">>,
       sql_template |-> <<"SELECT COUNT(*) FROM users WHERE is_active = TRUE">>,
       generator_func |-> "none", db_type |-> "sql", applicable_tables |-> {"users"}],
      [pattern |-> <<"usuarios", " ", "registrados", " ", "en", " ", "los", " ", "últimos", " ", "{number}", " ", "días">>,
       sql_template |-> <<"\n                SELECT * FROM users \n                WHERE created_at >= datetime('now', '-", "$", "2", " days')\n                ORDER BY created_at DESC\n                LIMIT 100\n                ">>,
       generator_func |-> "none", db_type |-> "sql", applicable_tables |-> {"users"}],
      [pattern |-> <<"usuarios", " ", "que", " ", "tienen", " ", "empresa">>,
       sql_template |-> <<"\n                SELECT u.* FROM users u\n                INNER JOIN businesses b ON u.id = b.owner_id\n                WHERE u.is_business = TRUE\n                LIMIT 100\n                ">>,
       generator_func |-> "none", db_type |-> "sql", applicable_tables |-> {"users", "businesses"}],
      [pattern |-> <<"busca", " ", "negocios", " ", "en", " ", "{value}">>,
       sql_template |-> <<"\n                SELECT * FROM businesses \n                WHERE address_city LIKE '%", "$", "2", "%' OR address_province LIKE '%", "$", "2", "%'\n                LIMIT 100\n                ">>,
       generator_func |-> "none", db_type |-> "sql", applicable_tables |-> {"businesses"}],
      [pattern |-> <<"muestra", " ", "todos", " ", "los", " ", "documentos", " ", "de", " ", "{table}">>,
       sql_template |-> <<>>,
       generator_func |-> "find", db_type |-> "mongodb", applicable_tables |-> {}] >>
NDefault == Len(LoadDefaultTemplates)

\* the file at template_path: missing, not JSON, or a list of template data
NoFile == [state |-> "absent", data |-> <<>>]
BadFile == [state |-> "corrupt", data |-> <<>>]
ListFile(l) == [state |-> "list", data |-> l]

\* the dictionary save_custom_template writes for a template (its description left out)
TemplateData(t) ==
    [pattern |-> t.pattern, sql_template |-> t.sql_template, db_type |-> t.db_type,
     applicable_tables |-> t.applicable_tables]
\* the template _load_custom_templates builds from a dictionary: never a generator
FromData(d) ==
    [pattern |-> d.pattern, sql_template |-> d.sql_template, generator_func |-> "none",
     db_type |-> d.db_type, applicable_tables |-> d.applicable_tables]

\* _load_custom_templates: appends what the file lists; a missing or unreadable file
\* adds nothing
LoadCustomTemplates(registry, file) ==
    IF file.state # "list" THEN registry
    ELSE registry \o [i \in 1..Len(file.data) |-> FromData(file.data[i])]

\* save_custom_template under a file system that works ("ok"), refuses to open the
\* file for writing ("open_fail"), or fails while json.dump writes ("dump_fail")
SaveEnvs == {"ok", "open_fail", "dump_fail"}
\* the first entry of the list with the pattern, 0 for none
IndexOfPattern(l, pattern) ==
    IF \E i \in 1..Len(l) : l[i].pattern = pattern
    THEN CHOOSE i \in 1..Len(l) :
             l[i].pattern = pattern /\ \A j \in 1..(i - 1) : l[j].pattern # pattern
    ELSE 0
SaveOutcome(template, env) ==
    LET custom_templates == IF template_file.state = "list" THEN template_file.data ELSE <<>>
        i == IndexOfPattern(custom_templates, template.pattern)
        updated == IF i > 0 THEN [custom_templates EXCEPT ![i] = TemplateData(template)]
                   ELSE Append(custom_templates, TemplateData(template))
    IN  IF env = "ok"
        THEN [file |-> ListFile(updated), registry |-> Append(templates, template), ok |-> TRUE]
        ELSE IF env = "open_fail"
        THEN [file |-> template_file, registry |-> templates, ok |-> FALSE]
        ELSE [file |-> BadFile, registry |-> templates, ok |-> FALSE]

\* the applicability test of find_matching_template
Applicable(template, db_schema) ==
    \/ template.applicable_tables = {}
    \/ template.applicable_tables \cap db_schema.tables # {}

\* a search that gives up at the first match that is not applicable
RECURSIVE FindFrom_StopAtMatch(_, _, _, _)
FindFrom_StopAtMatch(registry, i, query, db_schema) ==
    IF i > Len(registry) THEN [index |-> 0, params |-> <<>>]
    ELSE LET m == Matches(registry[i], query)
         IN  IF m.matched
             THEN IF Applicable(registry[i], db_schema)
                  THEN [index |-> i, params |-> m.groups]
                  ELSE [index |-> 0, params |-> <<>>]
             ELSE FindFrom_StopAtMatch(registry, i + 1, query, db_schema)

\* the loop of find_matching_template from position i of the registry
RECURSIVE FindFrom(_, _, _, _)
FindFrom(registry, i, query, db_schema) ==
    IF i > Len(registry) THEN [index |-> 0, params |-> <<>>]
    ELSE LET m == Matches(registry[i], query)
         IN  IF m.matched /\ Applicable(registry[i], db_schema)
             THEN [index |-> i, params |-> m.groups]
             ELSE FindFrom(registry, i + 1, query, db_schema)
FindMatchingTemplate(query, db_schema) == FindFrom(templates, 1, query, db_schema)

(* ------------------------- analyzer: inputs ----------------------------- *)
ListFrom == [pattern |-> <<"lista", " ", "{table}">>, sql_template |-> <<"SELECT * FROM ", "$", "1">>,
             generator_func |-> "none", db_type |-> "sql", applicable_tables |-> {}]
ListIds == [ListFrom EXCEPT !.sql_template = <<"SELECT id FROM ", "$", "1">>]
ActiveBusinesses ==
    [pattern |-> <<"cuántos", " ", "usuarios", " ", "activos", " ", "hay">>,
     sql_template |-> <<"SELECT COUNT(*) FROM businesses">>,
     generator_func |-> "none", db_type |-> "sql", applicable_tables |-> {"businesses"}]
ValueIn ==
    [pattern |-> <<"busca", " ", "{value}", " ", "en", " ", "{table}">>,
     sql_template |-> <<"SELECT * FROM ", "$", "2", " WHERE name = '", "$", "1", "'">>,
     generator_func |-> "none", db_type |-> "sql", applicable_tables |-> {}]
CustomTemplates == {ListFrom, ListIds, ActiveBusinesses, ValueIn}

TableNames == {"clientes", "users", "documentos"}
ShowAll(w) == <<"muestra", " ", "todos", " ", "los", " ", w>>
TplQueries ==
    { ShowAll(w) : w \in TableNames } \cup
    { <<"MUESTRA", " ", "Todos", " ", "LOS", " ", "users">>,
      <<"muestra", " ", " ", "todos", " ", "los", " ", "users">>,
      <<"muestra", " ", "todos", " ", "los", " ", "documentos", " ", "de", " ", "users">>,
      <<"cuántos", " ", "usuarios", " ", "activos", " ", "hay">>,
      <<"lista", " ", "users">>,
      <<"busca", " ", "$", "2", " ", "en", " ", "users">>,
      <<"hola">>,
      <<"xyzzy", " ", "plugh">>,
      ShowAll("users") \o <<" ", "ahora">>,
      ShowAll("users") \o <<"\n">>,
      <<"busca", " ", "negocios", " ", "en", " ", "users">> }
TableSets == { {}, {"users"}, {"businesses"}, TableNames }
ParamLists ==
    { <<>>, << <<"users">> >>, << <<"users">>, <<"7">> >>, << <<"$", "2">>, <<"users">> >> }
\* generate_query is a method of the template: any template can be asked
GenTemplates == CustomTemplates \cup { LoadDefaultTemplates[i] : i \in 1..NDefault }
InitFiles == { NoFile, BadFile, ListFile(<<TemplateData(ActiveBusinesses)>>) }

(* ------------------------- analyzer: actions ---------------------------- *)
\* QueryAnalyzer.__init__ over a template file left by an earlier run; no cache
InitTpl ==
    /\ memory_cache = Empty /\ memory_timestamps = Empty /\ memory_lru = <<>>
    /\ memory_limit = 0 /\ ttl = 0
    /\ disk = Empty /\ subdirs = {} /\ meta = Empty
    /\ now = 0
    /\ last = NoCall /\ ops = 0 /\ faults = 0
    /\ setAt = [h \in Hashes |-> -1]
    /\ setBy = [h \in Hashes |-> {}]
    /\ useOrder = <<>>
    /\ lruEvicted = {}
    /\ pc = Idle /\ loc = [t \in Threads |-> NoLocals] /\ calls = [t \in Threads |-> 0]
    /\ template_file \in InitFiles
    /\ templates = LoadCustomTemplates(LoadDefaultTemplates, template_file)
    /\ tres = NoTres
    /\ NoLog

SaveCustomTemplate(template, env) ==
    /\ Len(templates) < NDefault + MaxSaves
    /\ \E o \in {SaveOutcome(template, env)} :
           /\ template_file' = o.file
           /\ templates' = o.registry
           /\ tres' = [NoTres EXCEPT !.op = "save", !.ok = o.ok, !.template = {template}]
    /\ UNCHANGED <<cacheVars, histVars, threadVars, logVars>>

Find(query, db_schema) ==
    /\ \E o \in {FindMatchingTemplate(query, db_schema)} :
           tres' = [NoTres EXCEPT !.op = "find", !.query = query, !.tables = db_schema.tables,
                                  !.index = o.index, !.params = o.params]
    /\ UNCHANGED <<templates, template_file, cacheVars, histVars, threadVars, logVars>>

Generate(template, params) ==
    /\ \E o \in {GenerateQuery(template, params)} :
           tres' = [NoTres EXCEPT !.op = "generate", !.template = {template},
                                  !.params = params, !.result = o.value, !.raised = o.raised]
    /\ UNCHANGED <<templates, template_file, cacheVars, histVars, threadVars, logVars>>

NextTpl ==
    \/ \E t \in CustomTemplates, e \in SaveEnvs : SaveCustomTemplate(t, e)
    \/ \E q \in TplQueries, tabs \in TableSets : Find(q, [tables |-> tabs])
    \/ \E t \in GenTemplates, p \in ParamLists : Generate(t, p)

SpecTpl == InitTpl /\ [][NextTpl]_vars

(* -------------------------- claims: templates --------------------------- *)
\* the registry positions whose pattern matches the query and whose applicable_tables
\* is empty or names a table of the schema
Qualifying(query, tables) ==
    { i \in 1..Len(templates) :
        /\ Matches(templates[i], query).matched
        /\ \/ templates[i].applicable_tables = {}
           \/ \E t \in templates[i].applicable_tables : t \in tables }

\* C16: find_matching_template returns the qualifying template of smallest registry
\* index, with the groups its pattern captured; a match that is not applicable does
\* not end the search; the result is None only when no template qualifies.
C16_FirstMatch ==
    [][ tres'.op = "find"
        => LET qual == Qualifying(tres'.query, tres'.tables)
           IN  IF qual = {} THEN tres'.index = 0
               ELSE /\ tres'.index \in qual
                    /\ \A j \in qual : tres'.index <= j
                    /\ tres'.params = Matches(templates[tres'.index], tres'.query).groups ]_vars

\* a built-in matched, was not applicable to the schema, and a custom template
\* behind it was returned
C16_Witness ==
    /\ tres.op = "find" /\ tres.tables = {"businesses"}
    /\ tres.index > NDefault
    /\ \E i \in 1..NDefault : Matches(templates[i], tres.query).matched

\* C17: the registry never holds two custom templates with one pattern, and a find
\* that returns a custom template returns the last one saved with its pattern.
C17_OneCustomPerPattern ==
    [][ /\ \A i, j \in (NDefault + 1)..Len(templates') :
              i # j => templates'[i].pattern # templates'[j].pattern
        /\ (tres'.op = "find" /\ tres'.index > NDefault)
           => \A j \in (tres'.index + 1)..Len(templates) :
                 templates[j].pattern # templates[tres'.index].pattern ]_vars

\* the number a run of digits spells, and the length of the run of digits a text starts with
RECURSIVE ToNumber(_)
ToNumber(ds) ==
    IF ds = <<>> THEN 0
    ELSE 10 * ToNumber(SubSeq(ds, 1, Len(ds) - 1))
         + (CHOOSE k \in 0..9 : DigitOf[k + 1] = ds[Len(ds)])
RECURSIVE DigitRun(_)
DigitRun(s) == IF s # <<>> /\ Head(s) \in Digits THEN 1 + DigitRun(Tail(s)) ELSE 0

\* the template with every placeholder $n replaced, all at once, by the n-th
\* parameter; a placeholder beyond the parameters stays and is reported unresolved
RECURSIVE Positional(_, _)
Positional(sql, params) ==
    IF sql = <<>> THEN [text |-> <<>>, resolved |-> TRUE]
    ELSE IF Head(sql) = "$" /\ DigitRun(Tail(sql)) > 0
    THEN LET k == DigitRun(Tail(sql))
             n == ToNumber(SubSeq(sql, 2, k + 1))
             rest == Positional(SubSeq(sql, k + 2, Len(sql)), params)
         IN  IF n \in 1..Len(params)
             THEN [text |-> params[n] \o rest.text, resolved |-> rest.resolved]
             ELSE [text |-> SubSeq(sql, 1, k + 1) \o rest.text, resolved |-> FALSE]
    ELSE LET rest == Positional(Tail(sql), params)
         IN  [text |-> <<Head(sql)>> \o rest.text, resolved |-> rest.resolved]

\* C18: for a template without a generator, generate_query returns None when a
\* placeholder has no parameter, and a result that is not None is the template with
\* params[i] in the place of every $(i+1) and holds no placeholder.
C18_PositionalSubstitution ==
    \A t \in tres.template :
        (tres.op = "generate" /\ t.generator_func = "none")
        => LET expected == Positional(t.sql_template, tres.params)
           IN  /\ ~expected.resolved => tres.result.kind = "none"
               /\ tres.result.kind # "none"
                  => /\ tres.result.text = expected.text
                     /\ Positional(tres.result.text, <<>>).resolved

\* C19: a generator function that raises makes generate_query return None; the
\* exception does not reach the caller.
C19_GeneratorError ==
    \A t \in tres.template :
        (tres.op = "generate" /\ t.generator_func # "none")
        => /\ ~tres.raised
           /\ tres.params = <<>> => tres.result.kind = "none"

\* C20: with only the built-ins registered, "muestra todos los w" over a schema that
\* holds the table w finds the first built-in (index 0 in the code, position 1 here)
\* with the parameters [w], and that template generates "SELECT * FROM w LIMIT 100".
C20_ShowAll ==
    [][ \A w \in TableNames :
          (/\ tres'.op = "find" /\ tres'.query = ShowAll(w) /\ w \in tres'.tables
           /\ Len(templates) = NDefault)
          => /\ tres'.index = 1
             /\ tres'.params = << <<w>> >>
             /\ GenerateQuery(templates[1], tres'.params)
                  = [value |-> [kind |-> "sql", text |-> <<"SELECT * FROM ", w, " LIMIT 100">>],
                     raised |-> FALSE] ]_vars

\* the table "documentos", which the pattern of the MongoDB built-in names too
C20_Witness ==
    /\ tres.op = "find" /\ tres.query = ShowAll("documentos") /\ "documentos" \in tres.tables
    /\ Len(templates) = NDefault /\ tres.index = 1 /\ tres.params = << <<"documentos">> >>


(* --------------------------- claims: analyzer --------------------------- *)
\* the compiled pattern accounts for every atom of q, the last one included
RECURSIVE EntireMatch(_, _)
EntireMatch(regex, q) ==
    IF regex = <<>> THEN q = <<>>
    ELSE IF Head(regex) \in Groups
    THEN \E k \in 1..Len(q) :
            /\ \A i \in 1..k : InClass(Head(regex), q[i])
            /\ EntireMatch(Tail(regex), SubSeq(q, k + 1, Len(q)))
    ELSE /\ q # <<>> /\ LowerWord(Head(q)) = LowerWord(Head(regex))
         /\ EntireMatch(Tail(regex), Tail(q))

\* C21: with only the built-in templates registered, a find on a query that no
\* built-in pattern matches over its entire length returns no template, whatever
\* the schema, and leaves the registry and the template file as they were.
C21_NoMatch ==
    [][ ( /\ tres'.op = "find"
          /\ templates = LoadDefaultTemplates
          /\ \A i \in 1..NDefault :
                ~EntireMatch(CompilePattern(LoadDefaultTemplates[i].pattern), tres'.query) )
        => /\ tres'.index = 0
           /\ templates' = templates /\ template_file' = template_file ]_vars

(* ------------------- QueryAnalyzer: the query log ----------------------- *)
\* execution times and costs are exact fractions [n, d] in lowest terms, d > 0;
\* an execution time of 1 stands for 0.1 s and a cost of 1 for 0.01
RECURSIVE GCD(_, _)
GCD(a, b) == IF b = 0 THEN a ELSE GCD(b, a % b)
Reduce(n, d) == LET g == GCD(n, d) IN [n |-> n \div g, d |-> d \div g]
Rat(n) == [n |-> n, d |-> 1]
RatGreater(x, k) == x.n > k * x.d

\* an average that forgets how many values it stands for
RunningAverage_Halved(avg, count, value) == Reduce(avg.n + value * avg.d, avg.d * 2)

\* (avg * count + value) / new_count
RunningAverage(avg, count, value) ==
    Reduce(avg.n * count + value * avg.d, avg.d * (count + 1))

\* query.lower() on the atoms of the model
LowerAtoms(q) == [i \in DOMAIN q |-> LowerWord(q[i])]

\* the number of leading atoms of q that are in the set, or outside it
RECURSIVE Leading(_, _)
Leading(q, S) == IF q # <<>> /\ Head(q) \in S THEN 1 + Leading(Tail(q), S) ELSE 0
RECURSIVE LeadingOutside(_, _)
LeadingOutside(q, S) ==
    IF q # <<>> /\ Head(q) \notin S THEN 1 + LeadingOutside(Tail(q), S) ELSE 0

\* the elements of the common patterns: \s+, (\w+), a character class, literal words
BlankRun == "\\s+"
Literal(element, atom) ==
    IF element = "cu[aá]ntos" THEN atom \in {"cuantos", "cuántos"} ELSE atom = element

\* the pattern matched at the start of q, and the text of its group
RECURSIVE MatchAt(_, _)
MatchAt(regex, q) ==
    IF regex = <<>> THEN [matched |-> TRUE, entity |-> <<>>]
    ELSE IF Head(regex) = BlankRun
    THEN LET k == Leading(q, Blanks)
         IN  IF k = 0 THEN [matched |-> FALSE, entity |-> <<>>]
             ELSE MatchAt(Tail(regex), SubSeq(q, k + 1, Len(q)))
    ELSE IF Head(regex) = TableGroup
    THEN LET k == LeadingOutside(q, NonWord)
         IN  IF k = 0 THEN [matched |-> FALSE, entity |-> <<>>]
             ELSE [matched |-> MatchAt(Tail(regex), SubSeq(q, k + 1, Len(q))).matched,
                   entity |-> SubSeq(q, 1, k)]
    ELSE IF q # <<>> /\ Literal(Head(regex), Head(q))
         THEN MatchAt(Tail(regex), Tail(q))
         ELSE [matched |-> FALSE, entity |-> <<>>]

\* self.common_patterns, each with its optional groups spelled out, the alternative
\* the regex engine tries first in front; head and tail are the text of the pattern
\* before and after its (\w+)
common_patterns ==
    << [head |-> "muestra\\s+(?:todos\\s+)?los\\s+", tail |-> <<>>,
        alts |-> << <<"muestra", BlankRun, "todos", BlankRun, "los", BlankRun, TableGroup>>,
                    <<"muestra", BlankRun, "los", BlankRun, TableGroup>> >>],
       [head |-> "lista\\s+(?:de\\s+)?(?:todos\\s+)?los\\s+", tail |-> <<>>,
        alts |-> << <<"lista", BlankRun, "de", BlankRun, "todos", BlankRun, "los", BlankRun, TableGroup>>,
                    <<"lista", BlankRun, "de", BlankRun, "los", BlankRun, TableGroup>>,
                    <<"lista", BlankRun, "todos", BlankRun, "los", BlankRun, TableGroup>>,
                    <<"lista", BlankRun, "los", BlankRun, TableGroup>> >>],
       [head |-> "busca\\s+", tail |-> <<"\\s+donde">>,
        alts |-> << <<"busca", BlankRun, TableGroup, BlankRun, "donde">> >>],
       [head |-> "cu[aá]ntos\\s+", tail |-> <<"\\s+hay">>,
        alts |-> << <<"cu[aá]ntos", BlankRun, TableGroup, BlankRun, "hay">> >>],
       [head |-> "total\\s+de\\s+", tail |-> <<>>,
        alts |-> << <<"total", BlankRun, "de", BlankRun, TableGroup>> >>] >>

\* re.search(pattern, q): the leftmost position where the pattern matches
Search(pattern, q) ==
    LET at(i) == SubSeq(q, i, Len(q))
        hit(i) == { a \in 1..Len(pattern.alts) : MatchAt(pattern.alts[a], at(i)).matched }
        starts == { i \in 1..Len(q) : hit(i) # {} }
    IN  IF starts = {} THEN [matched |-> FALSE, entity |-> <<>>]
        ELSE LET i == CHOOSE x \in starts : \A y \in starts : x <= y
                 a == CHOOSE x \in hit(i) : \A y \in hit(i) : x <= y
             IN  MatchAt(pattern.alts[a], at(i))

\* str.split(): the runs of atoms between blanks
RECURSIVE Split(_)
Split(q) ==
    IF q = <<>> THEN <<>>
    ELSE IF Head(q) \in Blanks THEN Split(Tail(q))
    ELSE LET k == LeadingOutside(q, Blanks)
         IN  <<SubSeq(q, 1, k)>> \o Split(SubSeq(q, k + 1, Len(q)))

\* the result None of _detect_pattern
NoPattern == <<>>
ListVerbs == { <<"mostrar">>, <<"muestra">>, <<"listar">>, <<"lista">> }
Articles == { <<"de">>, <<"los">>, <<"las">>, <<"todos">>, <<"todas">> }

\* the generalisation of _detect_pattern for a query no common pattern matches
Generalize(words) ==
    IF Len(words) < 3 THEN NoPattern
    ELSE IF \E i \in 1..Len(words) : words[i] \in ListVerbs
    THEN LET at == { i \in 1..Len(words) - 1 : words[i] \in Articles }
         IN  IF at = {} THEN NoPattern
             ELSE LET i == CHOOSE x \in at : \A y \in at : x <= y
                  IN  <<"lista_de_">> \o words[i + 1]
    ELSE NoPattern

\* a scan that lets a later shape replace the label of an earlier one
RECURSIVE DetectFrom_LastShape(_, _)
DetectFrom_LastShape(i, normalized_query) ==
    IF i > Len(common_patterns) THEN Generalize(Split(normalized_query))
    ELSE LET match == Search(common_patterns[i], normalized_query)
             later == DetectFrom_LastShape(i + 1, normalized_query)
             laterShape == \E j \in (i + 1)..Len(common_patterns) :
                               Search(common_patterns[j], normalized_query).matched
         IN  IF match.matched /\ ~laterShape
             THEN <<common_patterns[i].head>> \o match.entity \o common_patterns[i].tail
             ELSE later

RECURSIVE DetectFrom(_, _)
DetectFrom(i, normalized_query) ==
    IF i > Len(common_patterns) THEN Generalize(Split(normalized_query))
    ELSE LET match == Search(common_patterns[i], normalized_query)
         IN  IF match.matched
             THEN <<common_patterns[i].head>> \o match.entity \o common_patterns[i].tail
             ELSE DetectFrom(i + 1, normalized_query)

\* _detect_pattern: the label of the query, a text, or NoPattern
DetectPattern(query) == DetectFrom(1, LowerAtoms(query))

\* the index of the row of a pattern in query_patterns, 0 when it has none
PatternRow(stats, pattern) ==
    IF \E i \in 1..Len(stats) : stats[i].pattern = pattern
    THEN CHOOSE i \in 1..Len(stats) : stats[i].pattern = pattern
    ELSE 0

\* SELECT count, avg_execution_time, avg_cost ... WHERE pattern = ?: the row, if any
ReadStat(stats, pattern) ==
    IF PatternRow(stats, pattern) = 0 THEN {} ELSE { stats[PatternRow(stats, pattern)] }

\* the UPDATE or INSERT of log_query, from the row the SELECT returned
WriteStat(stats, pattern, result, execution_time, cost, at) ==
    IF result # {}
    THEN LET old == CHOOSE r \in result : TRUE
             i == PatternRow(stats, pattern)
         IN  IF i = 0 THEN stats
             ELSE [stats EXCEPT ![i] =
                     [pattern |-> pattern, count |-> old.count + 1,
                      avg_execution_time |->
                          RunningAverage(old.avg_execution_time, old.count, execution_time),
                      avg_cost |-> RunningAverage(old.avg_cost, old.count, cost),
                      last_updated |-> at]]
    ELSE Append(stats, [pattern |-> pattern, count |-> 1,
                        avg_execution_time |-> Rat(execution_time),
                        avg_cost |-> Rat(cost), last_updated |-> at])

\* the statements of log_query that read and write query_patterns
UpdateStats(stats, pattern, execution_time, cost, at) ==
    IF pattern = NoPattern THEN stats
    ELSE WriteStat(stats, pattern, ReadStat(stats, pattern), execution_time, cost, at)

\* the row log_query inserts into query_log; config_id, collection_name and
\* result_count are stored as given and read by nothing
LogRow(query, execution_time, cost, at) ==
    [query |-> query, timestamp |-> at, execution_time |-> execution_time, cost |-> cost,
     pattern |-> DetectPattern(query)]

\* log_query as one transaction
LogOutcome(log, stats, query, execution_time, cost, at) ==
    [log |-> Append(log, LogRow(query, execution_time, cost, at)),
     stats |-> UpdateStats(stats, DetectPattern(query), execution_time, cost, at)]

\* the rows as stored, in no order of count
ByCount_AsStored(rows) == rows

\* ORDER BY count DESC: the rows by falling count, rows of one count as stored
RECURSIVE ByCount(_)
ByCount(rows) ==
    IF rows = <<>> THEN <<>>
    ELSE LET i == CHOOSE x \in 1..Len(rows) :
                    /\ \A y \in 1..Len(rows) : rows[y].count <= rows[x].count
                    /\ \A y \in 1..(x - 1) : rows[y].count < rows[x].count
         IN  <<rows[i]>> \o ByCount(SubSeq(rows, 1, i - 1) \o SubSeq(rows, i + 1, Len(rows)))

\* LIMIT n: a negative n is no limit
Limit(rows, n) == IF n < 0 \/ n >= Len(rows) THEN rows ELSE SubSeq(rows, 1, n)

\* get_common_patterns; estimated_monthly_cost, a rounded float, is left out
GetCommonPatterns(stats, limit) ==
    LET top == Limit(ByCount(stats), limit)
    IN  [i \in 1..Len(top) |->
            [pattern |-> top[i].pattern, count |-> top[i].count,
             avg_execution_time |-> top[i].avg_execution_time, avg_cost |-> top[i].avg_cost]]

\* the clock reads instants half a day apart; Date is the calendar day of an instant
Date(t) == t \div DayLen
\* timestamp > datetime('now', '-N day'): the text of isoformat() against the text
\* "date time" of sqlite, so a row of the very day of the limit compares greater
\* ("T" sorts after " ") whatever its time
InWindow(timestamp, at, days) == Date(timestamp) >= Date(at - days * DayLen)

\* min(k, x) and max(k, x) for a whole number k: k <= x exactly when k <= floor(x)
MinWith(k, x) == IF k <= x.n \div x.d THEN Rat(k) ELSE x
MaxWith(k, x) == IF x.n \div x.d >= k THEN x ELSE Rat(k)

\* a TTL that is not held above one hour
SuggestedTtl_NoFloor(query_count) ==
    MinWith(86400 * 3, Reduce(86400 * 100 * 30, query_count))

\* max(3600, min(86400 * 3, 86400 * (100 / (query_count / 30)))), in seconds
SuggestedTtl(query_count) ==
    MaxWith(3600, MinWith(86400 * 3, Reduce(86400 * 100 * 30, query_count)))

\* the suggestions drawn from the count and cost of the last 30 days
VolumeSuggestions(query_count, total_cost) ==
    IF query_count > 100
    THEN << [type |-> "volume_plan", query_count |-> query_count, total_cost |-> total_cost],
            [type |-> "cache_adjustment", current_rate |-> Reduce(query_count, 30),
             suggested_ttl |-> SuggestedTtl(query_count)] >>
    ELSE <<>>

\* SUM(cost), adding the halves of the list
RECURSIVE SumCost(_)
SumCost(rows) ==
    IF rows = <<>> THEN 0
    ELSE IF Len(rows) = 1 THEN rows[1].cost
    ELSE LET h == Len(rows) \div 2
         IN  SumCost(SubSeq(rows, 1, h)) + SumCost(SubSeq(rows, h + 1, Len(rows)))
\* WHERE timestamp > datetime('now', '-N day')
Filter(rows, at, days) == SelectSeq(rows, LAMBDA r : InWindow(r.timestamp, at, days))

\* the suggestions for one row of get_common_patterns(10); estimated_savings, a
\* rounded float, is left out
PatternSuggestions(row) ==
    (IF row.count >= 5
     THEN << [type |-> "precompile", pattern |-> row.pattern, count |-> row.count] >>
     ELSE <<>>) \o
    (IF RatGreater(row.avg_cost, 10) /\ row.count < 5
     THEN << [type |-> "analyze", pattern |-> row.pattern, avg_cost |-> row.avg_cost] >>
     ELSE <<>>)
RECURSIVE Concat(_)
Concat(lists) == IF lists = <<>> THEN <<>> ELSE Head(lists) \o Concat(Tail(lists))

\* GROUP BY: one record per key with its count and cost; Rank(key) is the place of
\* the key in the order of the grouping column
Group(rows, Key(_), Rank(_)) ==
    { [key |-> k, rank |-> Rank(k),
       count |-> Cardinality({ i \in 1..Len(rows) : Key(rows[i]) = k }),
       total_cost |-> SumCost(SelectSeq(rows, LAMBDA r : Key(r) = k))]
      : k \in { Key(rows[i]) : i \in 1..Len(rows) } }
\* ORDER BY COUNT(*) DESC over groups; sqlite returns groups of one count with the
\* greater key first
RECURSIVE ByCountThenRank(_)
ByCountThenRank(groups) ==
    IF groups = {} THEN <<>>
    ELSE LET g == CHOOSE x \in groups :
                    \A y \in groups :
                        \/ y.count < x.count
                        \/ y.count = x.count /\ y.rank <= x.rank
         IN  <<g>> \o ByCountThenRank(groups \ {g})

(* ------------------------- query log: inputs ---------------------------- *)
ShowUsers == <<"muestra", " ", "los", " ", "users">>
ShowUsersLoud == <<"MUESTRA", " ", "Todos", " ", "LOS", " ", "users">>
Greeting == <<"hola">>
CountOrders == <<"cuántos", " ", "pedidos", " ", "hay">>
ListClients == <<"lista", " ", "users", " ", "de", " ", "clientes">>
LogQueries == {ShowUsers, ShowUsersLoud, Greeting, CountOrders, ListClients}
\* execution_time and cost of a call; [0, 9] are the defaults 0 and 0.09
Measures == { [execution_time |-> 0, cost |-> 9], [execution_time |-> 3, cost |-> 20] }

\* the queries of an earlier, busy run: eleven patterns and six plain texts
EntityOf == <<"t1", "t2", "t3", "t4", "t5", "t6", "t7", "t8", "t9", "t10", "t11">>
TotalOf(i) == <<"total", " ", "de", " ", EntityOf[i]>>
PlainOf == <<"q1", "q2", "q3", "q4", "q5", "q6">>
Plain(i) == <<PlainOf[i]>>

\* the queries of the model in the order of their texts (BINARY collation)
TextOrder ==
    << ShowUsersLoud, CountOrders, Greeting, ListClients, ShowUsers,
       Plain(1), Plain(2), Plain(3), Plain(4), Plain(5), Plain(6),
       TotalOf(1), TotalOf(10), TotalOf(11), TotalOf(2), TotalOf(3), TotalOf(4),
       TotalOf(5), TotalOf(6), TotalOf(7), TotalOf(8), TotalOf(9) >>
TextRank(q) == CHOOSE i \in 1..Len(TextOrder) : TextOrder[i] = q

\* round(0.09 * (count - 1), 2), in hundredths like the costs of the log
SavingPerRepeat == 9
RedundantSaving(count) == SavingPerRepeat * (count - 1)

\* get_optimization_suggestions at instant at: the list it returns
OptimizationSuggestions(log, stats, at) ==
    LET month == Filter(log, at, 30)
        common == GetCommonPatterns(stats, 10)
        hours == Limit(ByCountThenRank(Group(Filter(log, at, 7),
                                             LAMBDA r : r.timestamp, LAMBDA k : k)), 5)
        repeated == { g \in Group(Filter(log, at, 1), LAMBDA r : r.query, TextRank) :
                        g.count > 3 }
        redundant == Limit(ByCountThenRank(repeated), 5)
    IN  VolumeSuggestions(Len(month), SumCost(month))
        \o Concat([i \in 1..Len(common) |-> PatternSuggestions(common[i])])
        \o Concat([i \in 1..Len(hours) |->
                     IF hours[i].count > 20
                     THEN << [type |-> "load_balancing", hour |-> hours[i].key,
                              query_count |-> hours[i].count,
                              total_cost |-> hours[i].total_cost] >>
                     ELSE <<>>])
        \o [i \in 1..Len(redundant) |->
               [type |-> "redundant", query |-> redundant[i].key, count |-> redundant[i].count,
                estimated_savings |-> RedundantSaving(redundant[i].count)]]

\* the database a sequence of log_query calls leaves behind
RECURSIVE Replay(_, _)
Replay(store, logged) ==
    IF logged = <<>> THEN store
    ELSE IF Len(logged) = 1
    THEN LogOutcome(store.log, store.stats, logged[1].query, logged[1].execution_time,
                    logged[1].cost, logged[1].at)
    ELSE LET h == Len(logged) \div 2
         IN  \* the second half of the calls, on the database the first half left
             CHOOSE r \in { Replay(half, SubSeq(logged, h + 1, Len(logged))) :
                              half \in {Replay(store, SubSeq(logged, 1, h))} } : TRUE
Logged(query, execution_time, cost, at) ==
    [query |-> query, execution_time |-> execution_time, cost |-> cost, at |-> at]
Repeat(n, x) == [i \in 1..n |-> x]
NewStore == [log |-> <<>>, stats |-> <<>>]
\* the calls of two earlier runs: one a day before the clock of the model starts,
\* a busy one half a day before
WeekCalls ==
    << Logged(CountOrders, 0, 9, -DayLen),
       Logged(ShowUsers, 0, 9, -DayLen), Logged(ShowUsers, 3, 20, -DayLen),
       Logged(ShowUsers, 0, 9, -DayLen), Logged(ShowUsersLoud, 0, 9, -DayLen) >>
BusyCalls ==
    [i \in 1..10 |-> Logged(TotalOf(i), 0, 9, -1)]
    \o [i \in 1..10 |-> Logged(TotalOf(i), 0, 9, -1)]
    \o << Logged(TotalOf(11), 3, 20, -1) >>
    \o Concat([i \in 1..6 |-> Repeat(3 + i, Logged(Plain(i), 0, 9, -1))])
WeekStore == Replay(NewStore, WeekCalls)
BusyStore == Replay(NewStore, BusyCalls)
InitStores == {NewStore, WeekStore, BusyStore}
PatternLimits == 0..MaxResults

\* the pieces of SQL text between the names and values of a statement; none of them
\* puts a word character next to a name or value
SqlGlue == {"SELECT * FROM ", "SELECT 1", " WHERE id = ", " WHERE n = ", " WHERE email = "}
IsWord(a) == a \notin NonWord \cup SqlGlue
Quotes == {"'", "\""}

\* re.sub(r'\b' + token + r'\b', new, s) for a token that starts and ends with a
\* word character; boundary: no word character stands before s
RECURSIVE SubWord(_, _, _, _)
SubWord(s, token, new, boundary) ==
    IF Len(s) < Len(token) THEN s
    ELSE IF /\ boundary
            /\ SubSeq(s, 1, Len(token)) = token
            /\ (Len(s) = Len(token) \/ ~IsWord(s[Len(token) + 1]))
         THEN new \o SubWord(SubSeq(s, Len(token) + 1, Len(s)), token, new, FALSE)
         ELSE <<Head(s)>> \o SubWord(Tail(s), token, new, ~IsWord(Head(s)))

\* re.sub(r'[\'"]' + value + r'[\'"]', "'$1'", s)
RECURSIVE SubQuoted(_, _)
SubQuoted(s, value) ==
    IF Len(s) < Len(value) + 2 THEN s
    ELSE IF /\ Head(s) \in Quotes
            /\ SubSeq(s, 2, Len(value) + 1) = value
            /\ s[Len(value) + 2] \in Quotes
         THEN <<"'", "$", "1", "'">> \o SubQuoted(SubSeq(s, Len(value) + 3, Len(s)), value)
         ELSE <<Head(s)>> \o SubQuoted(Tail(s), value)

\* token.strip('"\'')
StripQuotes(token) ==
    LET a == Leading(token, Quotes)
        rest == SubSeq(token, a + 1, Len(token))
        b == CHOOSE k \in 0..Len(rest) :
                /\ \A i \in (Len(rest) - k + 1)..Len(rest) : rest[i] \in Quotes
                /\ (k < Len(rest) => rest[Len(rest) - k] \notin Quotes)
    IN  SubSeq(rest, 1, Len(rest) - b)
\* len(value) > 2 decides on the characters: an atom counts 1 if it is one character,
\* 2 for "ab", and 3 for every longer word
CharLen(a) == IF a \in Digits \cup NonWord \cup {"x", "y", "t"} THEN 1 ELSE IF a = "ab" THEN 2 ELSE 3
RECURSIVE TextLen(_)
TextLen(s) == IF s = <<>> THEN 0 ELSE CharLen(Head(s)) + TextLen(Tail(s))

\* the loop of suggest_new_template over the tokens of the query
RECURSIVE Parameterize(_, _, _)
Parameterize(tokens, sql, pattern) ==
    IF tokens = <<>> THEN [sql |-> sql, pattern |-> pattern]
    ELSE LET token == Head(tokens)
         IN  IF \A i \in 1..Len(token) : token[i] \in Digits
             THEN Parameterize(Tail(tokens), SubWord(sql, token, <<"$", "1">>, TRUE),
                               Replace(pattern, token, <<"{number}">>))
             ELSE IF (\E i \in 1..Len(token) : token[i] = "@")
                     /\ (\E i \in 1..Len(token) : token[i] = ".")
             THEN Parameterize(Tail(tokens), SubWord(sql, token, <<"$", "1">>, TRUE),
                               Replace(pattern, token, <<"{value}">>))
             ELSE IF Head(token) \in Quotes /\ TextLen(StripQuotes(token)) > 2
             THEN Parameterize(Tail(tokens), SubQuoted(sql, StripQuotes(token)),
                               Replace(pattern, token, <<"{value}">>))
             ELSE Parameterize(Tail(tokens), sql, pattern)

\* re.compile in QueryTemplate.__init__ rejects a pattern with an unclosed "(";
\* the queries of the model bring no other regex syntax into a label
Compilable(pattern) == \A i \in 1..Len(pattern) : pattern[i] # "("

\* suggest_new_template: the template it returns ({}: None), or that it raised
SuggestOutcome(query, sql_query) ==
    LET pattern == DetectPattern(query)
        g == Parameterize(Split(LowerAtoms(query)), sql_query, pattern)
    IN  IF pattern = NoPattern THEN [candidate |-> {}, raised |-> FALSE]
        ELSE IF ~Compilable(g.pattern) THEN [candidate |-> {}, raised |-> TRUE]
        ELSE [candidate |-> { [pattern |-> g.pattern, sql_template |-> g.sql,
                               generator_func |-> "none", db_type |-> "sql",
                               applicable_tables |-> {}] },
              raised |-> FALSE]

SuggestInputs ==
    { [query |-> ShowUsers, sql_query |-> <<"SELECT * FROM ", "users">>],
      [query |-> Greeting, sql_query |-> <<"SELECT 1">>],
      [query |-> <<"muestra", " ", "los", " ", "7">>,
       sql_query |-> <<"SELECT * FROM ", "t", "7", " WHERE id = ", "7">>],
      [query |-> <<"muestra", " ", "x", " ", "de", " ", "(", "abc">>, sql_query |-> <<"SELECT 1">>],
      [query |-> <<"muestra", " ", "x", " ", "de", " ", "'", "pedro", "'">>,
       sql_query |-> <<"SELECT * FROM ", "x", " WHERE n = ", "'", "pedro", "'">>],
      [query |-> <<"muestra", " ", "x", " ", "de", " ", "'", "ab", "'">>,
       sql_query |-> <<"SELECT * FROM ", "x", " WHERE n = ", "'", "ab", "'">>],
      [query |-> <<"busca", " ", "users", " ", "donde", " ", "email", " ",
                   "ana", "@", "example", ".", "com">>,
       sql_query |-> <<"SELECT * FROM ", "users", " WHERE email = ",
                       "'", "ana", "@", "example", ".", "com", "'">>] }

(* ------------------------- query log: actions --------------------------- *)
\* QueryAnalyzer.__init__ over the log database of an earlier run (_init_db creates
\* the tables only if they are missing); no cache
InitLog ==
    /\ memory_cache = Empty /\ memory_timestamps = Empty /\ memory_lru = <<>>
    /\ memory_limit = 0 /\ ttl = 0
    /\ disk = Empty /\ subdirs = {} /\ meta = Empty
    /\ now = 0
    /\ last = NoCall /\ ops = 0 /\ faults = 0
    /\ setAt = [h \in Hashes |-> -1]
    /\ setBy = [h \in Hashes |-> {}]
    /\ useOrder = <<>>
    /\ lruEvicted = {}
    /\ pc = Idle /\ loc = [t \in Threads |-> NoLocals] /\ calls = [t \in Threads |-> 0]
    /\ template_file = ListFile(<<TemplateData(ListFrom)>>)
    /\ templates = LoadCustomTemplates(LoadDefaultTemplates, template_file)
    /\ tres = NoTres
    /\ \E store \in InitStores : query_log = store.log /\ query_patterns = store.stats
    /\ db_lock = 0
    /\ lres = NoLres

logFrame == <<memory_cache, memory_timestamps, memory_lru, memory_limit, ttl, disk, subdirs, meta,
              last, faults, setAt, setBy, useOrder, lruEvicted, threadVars, tplVars, db_lock>>

LogQuery(query, measure) ==
    /\ ops < MaxLogs
    /\ \E o \in {LogOutcome(query_log, query_patterns, query,
                            measure.execution_time, measure.cost, now)} :
           /\ query_log' = o.log
           /\ query_patterns' = o.stats
    /\ ops' = ops + 1
    /\ lres' = [NoLres EXCEPT !.op = "log", !.query = query]
    /\ UNCHANGED <<logFrame, now>>

CommonPatterns(limit) ==
    /\ lres' = [NoLres EXCEPT !.op = "patterns", !.limit = limit,
                              !.rows = GetCommonPatterns(query_patterns, limit)]
    /\ UNCHANGED <<logFrame, now, ops, query_log, query_patterns>>

GetOptimizationSuggestions ==
    /\ lres' = [NoLres EXCEPT !.op = "suggestions",
                   !.suggestions = OptimizationSuggestions(query_log, query_patterns, now)]
    /\ UNCHANGED <<logFrame, now, ops, query_log, query_patterns>>

\* half a day passes
TickLog ==
    /\ now < MaxLogTime
    /\ now' = now + 1
    /\ lres' = NoLres
    /\ UNCHANGED <<logFrame, ops, query_log, query_patterns>>

SuggestNewTemplate(query, sql_query) ==
    /\ \E o \in {SuggestOutcome(query, sql_query)} :
           lres' = [NoLres EXCEPT !.op = "suggest", !.query = query,
                                  !.candidate = o.candidate, !.raised = o.raised]
    /\ UNCHANGED <<logFrame, now, ops, query_log, query_patterns>>

NextLog ==
    \/ \E q \in LogQueries, m \in Measures : LogQuery(q, m)
    \/ \E n \in PatternLimits : CommonPatterns(n)
    \/ GetOptimizationSuggestions
    \/ \E i \in SuggestInputs : SuggestNewTemplate(i.query, i.sql_query)
    \/ TickLog

SpecLog == InitLog /\ [][NextLog]_vars

(* --------------------------- claims: query log -------------------------- *)
\* the rows of the log that carry the pattern, and the sum of a list of numbers
RowsOf(pattern) == SelectSeq(query_log, LAMBDA r : r.pattern = pattern)
RECURSIVE Total(_)
Total(values) ==
    IF values = <<>> THEN 0
    ELSE IF Len(values) = 1 THEN values[1]
    ELSE LET h == Len(values) \div 2
         IN  Total(SubSeq(values, 1, h)) + Total(SubSeq(values, h + 1, Len(values)))
IsMean(avg, values) == avg.n * Len(values) = Total(values) * avg.d

\* C22: after the N calls of log_query that carry one pattern, the row of the pattern
\* has count N, and its two averages are the arithmetic means of the N execution
\* times and of the N costs (count times average is their sum), whatever N and the
\* order of the values.
C22_RunningMean ==
    \A i \in 1..Len(query_patterns) :
        LET stat == query_patterns[i]
            rows == RowsOf(stat.pattern)
        IN  /\ stat.count = Len(rows)
            /\ stat.count >= 1
            /\ IsMean(stat.avg_execution_time, [k \in 1..Len(rows) |-> rows[k].execution_time])
            /\ IsMean(stat.avg_cost, [k \in 1..Len(rows) |-> rows[k].cost])

\* six calls with one pattern, of unequal costs, the last of them just made
C22_Witness ==
    /\ lres.op = "log"
    /\ \E i \in 1..Len(query_patterns) :
          /\ query_patterns[i].pattern = DetectPattern(lres.query)
          /\ query_patterns[i].count = 6
          /\ query_patterns[i].avg_cost.d > 1

\* the records of a query text the last day holds for certain, and those it may hold:
\* a record exactly one day old is left to either side
LoggedWithin(query, at) ==
    Cardinality({ k \in 1..Len(query_log) :
                    query_log[k].query = query /\ query_log[k].timestamp > at - DayLen })
LoggedSince(query, at) ==
    Cardinality({ k \in 1..Len(query_log) :
                    query_log[k].query = query /\ query_log[k].timestamp >= at - DayLen })
Redundant(query) ==
    { k \in 1..Len(lres.suggestions) :
        lres.suggestions[k].type = "redundant" /\ lres.suggestions[k].query = query }

\* C25: get_optimization_suggestions returns a 'redundant' suggestion for every query
\* text logged more than 3 times within the last day, its count the number of those
\* records, and none for a query text logged 3 times or fewer in that time.
C25_Redundant ==
    lres.op = "suggestions"
    => \A r \in 1..Len(query_log) :
         LET query == query_log[r].query
         IN  /\ LoggedWithin(query, now) > 3 => Redundant(query) # {}
             /\ LoggedSince(query, now) <= 3 => Redundant(query) = {}
             /\ \A k \in Redundant(query) :
                   /\ lres.suggestions[k].count >= LoggedWithin(query, now)
                   /\ lres.suggestions[k].count <= LoggedSince(query, now)

Suggested(type, pattern) ==
    \E k \in 1..Len(lres.suggestions) :
        lres.suggestions[k].type = type /\ lres.suggestions[k].pattern = pattern

\* C26: get_optimization_suggestions returns a 'precompile' suggestion for every
\* pattern row with count >= 5 and an 'analyze' suggestion for every pattern row with
\* avg_cost > 0.1 and count < 5, however many patterns there are, and for no other.
C26_PatternSuggestions ==
    lres.op = "suggestions"
    => \A i \in 1..Len(query_patterns) :
         LET stat == query_patterns[i]
         IN  /\ Suggested("precompile", stat.pattern) <=> stat.count >= 5
             /\ Suggested("analyze", stat.pattern)
                <=> (RatGreater(stat.avg_cost, 10) /\ stat.count < 5)

\* C28: suggest_new_template returns a template, or None when the query has no
\* pattern label, and changes neither the registry, the template file, the query log
\* nor the pattern rows, so that find_matching_template answers as before.
C28_SuggestFrame ==
    [][ lres'.op = "suggest"
        => /\ ~lres'.raised
           /\ lres'.candidate = {} <=> DetectPattern(lres'.query) = NoPattern
           /\ UNCHANGED <<templates, template_file, query_log, query_patterns>>
           /\ \A q \in TplQueries, tabs \in TableSets :
                 FindFrom(templates', 1, q, [tables |-> tabs])
                     = FindFrom(templates, 1, q, [tables |-> tabs]) ]_vars

\* C29: get_common_patterns(limit) returns min(limit, number of pattern rows) rows,
\* those of the highest counts, in non-increasing order of count, and changes neither
\* the query log nor the pattern rows.
C29_CommonPatterns ==
    [][ lres'.op = "patterns"
        => LET rows == lres'.rows
               n == IF lres'.limit <= Len(query_patterns) THEN lres'.limit
                    ELSE Len(query_patterns)
           IN  /\ Len(rows) = n
               /\ \A i \in 1..Len(rows) :
                     \E k \in 1..Len(query_patterns) :
                        /\ query_patterns[k].pattern = rows[i].pattern
                        /\ query_patterns[k].count = rows[i].count
                        /\ query_patterns[k].avg_execution_time = rows[i].avg_execution_time
                        /\ query_patterns[k].avg_cost = rows[i].avg_cost
               /\ \A i, j \in 1..Len(rows) :
                     /\ i < j => rows[i].count >= rows[j].count
                     /\ i # j => rows[i].pattern # rows[j].pattern
               /\ \A k \in 1..Len(query_patterns) :
                     (\A i \in 1..Len(rows) : rows[i].pattern # query_patterns[k].pattern)
                     => \A i \in 1..Len(rows) : rows[i].count >= query_patterns[k].count
               /\ UNCHANGED <<query_log, query_patterns>> ]_vars

\* a limit of 1 cut the list, and the row returned is not the first one stored
C29_Witness ==
    /\ lres.op = "patterns" /\ lres.limit = 1
    /\ Len(query_patterns) > 1
    /\ Len(lres.rows) = 1
    /\ lres.rows[1].pattern # query_patterns[1].pattern
    /\ lres.rows[1].count > query_patterns[1].count

(* ------------------- the suggested TTL, as a function ------------------- *)
\* the number of queries the last 30 days hold: around the threshold of 100, around
\* the two ends of the clamp, and in steps of 750 up to MaxCount * 750
MaxCount == 120
QueryCounts == {0, 50, 100, 101, 500, 999, 1000, 1001, 71999, 72000, 72001}
               \cup { k * 750 : k \in 1..MaxCount }

\* a log whose last 30 days hold query_count queries, each of the default cost
InitTtl ==
    /\ memory_cache = Empty /\ memory_timestamps = Empty /\ memory_lru = <<>>
    /\ memory_limit = 0 /\ ttl = 0
    /\ disk = Empty /\ subdirs = {} /\ meta = Empty
    /\ now = 0
    /\ last = NoCall /\ ops = 0 /\ faults = 0
    /\ setAt = [h \in Hashes |-> -1]
    /\ setBy = [h \in Hashes |-> {}]
    /\ useOrder = <<>>
    /\ lruEvicted = {}
    /\ pc = Idle /\ loc = [t \in Threads |-> NoLocals] /\ calls = [t \in Threads |-> 0]
    /\ templates = <<>> /\ template_file = "absent" /\ tres = NoTres
    /\ query_log = <<>> /\ query_patterns = <<>> /\ db_lock = 0
    /\ \E n \in QueryCounts : lres = [NoLres EXCEPT !.op = "count", !.limit = n]

\* the part of get_optimization_suggestions that depends on the 30-day count alone
SuggestVolume ==
    /\ lres.op = "count"
    /\ lres' = [lres EXCEPT !.op = "volume",
                            !.suggestions = VolumeSuggestions(lres.limit, 9 * lres.limit)]
    /\ UNCHANGED <<logFrame, now, ops, query_log, query_patterns>>

NextTtl == SuggestVolume
SpecTtl == InitTtl /\ [][NextTtl]_vars

\* x <= y for two fractions, by their whole parts first
RatLeq(x, y) ==
    \/ x.n \div x.d < y.n \div y.d
    \/ /\ x.n \div x.d = y.n \div y.d
       /\ (x.n % x.d) * y.d <= (y.n % y.d) * x.d
Adjustments ==
    { k \in 1..Len(lres.suggestions) : lres.suggestions[k].type = "cache_adjustment" }

\* C27: whenever a 'cache_adjustment' suggestion is emitted, its TTL is
\* 86400 * 100 / (queries per day) seconds held within [3600, 259200]: never under
\* one hour, never over 72 hours, and never higher for a higher 30-day count.
C27_TtlClamp ==
    lres.op = "volume"
    => \A k \in Adjustments :
         LET n == lres.limit
             t == lres.suggestions[k].suggested_ttl
         IN  /\ n > 100
             /\ RatLeq(Rat(3600), t) /\ RatLeq(t, Rat(259200))
             /\ n <= 1000 => t = Rat(259200)
             /\ n >= 72000 => t = Rat(3600)
             \* in between, t is 86400 * 100 * 30 / n in lowest terms
             /\ (n > 1000 /\ n < 72000)
                => (n % t.d = 0 /\ t.n * (n \div t.d) = 86400 * 100 * 30)
             /\ \A m \in QueryCounts : (m > n) => RatLeq(SuggestedTtl(m), t)

\* a suggestion for a count so high that the TTL rests on the floor of one hour
C27_Witness ==
    /\ lres.op = "volume" /\ lres.limit > 72000
    /\ \E k \in Adjustments : lres.suggestions[k].suggested_ttl = Rat(3600)

(* ------------------- log_query, statement by statement ------------------ *)
\* Every log_query opens its own connection. Its first statement, the INSERT into
\* query_log, opens the transaction and takes the write lock of the database file;
\* the lock is held until conn.commit(). A connection that finds the lock taken
\* waits, and raises OperationalError (database is locked) when its timeout ends.

ConcLogQueries == {ShowUsers, ShowUsersLoud, Greeting}
ConcStores == {NewStore, WeekStore}
NoLogLocals == [op |-> "none", query |-> <<>>, execution_time |-> 0, cost |-> 0,
                pattern |-> NoPattern, result |-> {}, journal |-> {}]

InitLogConc ==
    /\ memory_cache = Empty /\ memory_timestamps = Empty /\ memory_lru = <<>>
    /\ memory_limit = 0 /\ ttl = 0
    /\ disk = Empty /\ subdirs = {} /\ meta = Empty
    /\ now = 0
    /\ last = NoCall /\ ops = 0 /\ faults = 0
    /\ setAt = [h \in Hashes |-> -1]
    /\ setBy = [h \in Hashes |-> {}]
    /\ useOrder = <<>>
    /\ lruEvicted = {}
    /\ pc = Idle /\ loc = [t \in Threads |-> NoLogLocals] /\ calls = [t \in Threads |-> 0]
    /\ template_file = NoFile
    /\ templates = LoadCustomTemplates(LoadDefaultTemplates, template_file)
    /\ tres = NoTres
    /\ \E store \in ConcStores : query_log = store.log /\ query_patterns = store.stats
    /\ db_lock = 0
    /\ lres = NoLres

concFrame == <<cacheVars, histVars, tplVars, lres>>

\* pattern = self._detect_pattern(query); sqlite3.connect
StartLog(t, query, measure) ==
    /\ At(t, "idle") /\ calls[t] < MaxCalls
    /\ calls' = [calls EXCEPT ![t] = @ + 1]
    /\ loc' = [loc EXCEPT ![t] = [NoLogLocals EXCEPT !.op = "log", !.query = query,
                                     !.execution_time = measure.execution_time,
                                     !.cost = measure.cost,
                                     !.pattern = DetectPattern(query)]]
    /\ Goto(t, "insert")
    /\ UNCHANGED <<concFrame, query_log, query_patterns, db_lock>>

\* INSERT INTO query_log: the transaction begins, sqlite keeps the tables as they
\* were in its rollback journal
InsertLog(t) ==
    /\ At(t, "insert") /\ CanWrite(t)
    /\ db_lock' = t
    /\ query_log' = Append(query_log, LogRow(loc[t].query, loc[t].execution_time,
                                             loc[t].cost, now))
    /\ loc' = [loc EXCEPT ![t].journal = {[log |-> query_log, stats |-> query_patterns]}]
    /\ Goto(t, IF loc[t].pattern # NoPattern THEN "select" ELSE "commit")
    /\ UNCHANGED <<concFrame, query_patterns, calls>>

\* the wait for the lock ends in OperationalError; nothing was written
InsertBusy(t) ==
    /\ At(t, "insert") /\ ~CanWrite(t)
    /\ loc' = [loc EXCEPT ![t].op = "failed"]
    /\ Goto(t, "idle")
    /\ UNCHANGED <<concFrame, query_log, query_patterns, db_lock, calls>>

\* SELECT count, avg_execution_time, avg_cost; fetchone
SelectStat(t) ==
    /\ At(t, "select")
    /\ loc' = [loc EXCEPT ![t].result = ReadStat(query_patterns, loc[t].pattern)]
    /\ Goto(t, "write")
    /\ UNCHANGED <<concFrame, query_log, query_patterns, db_lock, calls>>

\* UPDATE query_patterns, or INSERT INTO query_patterns
WriteStatRow(t) ==
    /\ At(t, "write")
    /\ query_patterns' = WriteStat(query_patterns, loc[t].pattern, loc[t].result,
                                   loc[t].execution_time, loc[t].cost, now)
    /\ Goto(t, "commit")
    /\ UNCHANGED <<concFrame, query_log, db_lock, loc, calls>>

\* conn.commit(); conn.close()
CommitLog(t) ==
    /\ At(t, "commit")
    /\ db_lock' = IF db_lock = t THEN 0 ELSE db_lock
    /\ loc' = [loc EXCEPT ![t].op = "done", ![t].journal = {}]
    /\ Goto(t, "idle")
    /\ UNCHANGED <<concFrame, query_log, query_patterns, calls>>

NextLogConc ==
    \/ \E t \in Threads, q \in ConcLogQueries, m \in Measures : StartLog(t, q, m)
    \/ \E t \in Threads : InsertLog(t)
    \/ \E t \in Threads : InsertBusy(t)
    \/ \E t \in Threads : SelectStat(t)
    \/ \E t \in Threads : WriteStatRow(t)
    \/ \E t \in Threads : CommitLog(t)

SpecLogConc == InitLogConc /\ [][NextLogConc]_vars

\* C23: under every interleaving of concurrent log_query calls for one pattern, the
\* read and the write of the pattern row by a call are atomic: the row a call writes
\* from is the row as it stands, and once the calls that completed have committed,
\* the count has grown by exactly their number and the averages hold every value.
C23_NoLostUpdate ==
    /\ \A t \in Threads :
          At(t, "write") => loc[t].result = ReadStat(query_patterns, loc[t].pattern)
    /\ db_lock = 0 => C22_RunningMean

\* both threads completed all their calls, all for one pattern
C23_Witness ==
    /\ db_lock = 0
    /\ \A t \in Threads : At(t, "idle") /\ calls[t] = MaxCalls /\ loc[t].op = "done"
    /\ Len(query_log) = NThreads * MaxCalls
    /\ \E i \in 1..Len(query_patterns) : query_patterns[i].count = NThreads * MaxCalls

(* ------- save_custom_template and find_matching_template in threads ------ *)
\* The registry is the list self.templates. A saver holds a template its caller
\* built (QueryTemplate.__init__ ran to its end, regex included) and reaches the
\* registry in one statement, self.templates.append(template); a finder walks the
\* list with a list iterator, which looks at the live length before every element.

\* a registration at the head of the list
Publish_Front(registry, template) == <<template>> \o registry

Publish(registry, template) == Append(registry, template)

PubTemplates == {ListFrom, ValueIn}
PubQueries == { <<"lista", " ", "users">>, ShowAll("users"), <<"hola">> }
PubTableSets == { {"users"} }
NoPubLocals == [op |-> "none", template |-> {}, env |-> "ok", custom_templates |-> <<>>,
                query |-> <<>>, tables |-> {}, i |-> 0, seen |-> 0,
                index |-> 0, params |-> <<>>, ok |-> FALSE]

InitPub ==
    /\ memory_cache = Empty /\ memory_timestamps = Empty /\ memory_lru = <<>>
    /\ memory_limit = 0 /\ ttl = 0
    /\ disk = Empty /\ subdirs = {} /\ meta = Empty
    /\ now = 0
    /\ last = NoCall /\ ops = 0 /\ faults = 0
    /\ setAt = [h \in Hashes |-> -1]
    /\ setBy = [h \in Hashes |-> {}]
    /\ useOrder = <<>>
    /\ lruEvicted = {}
    /\ pc = Idle /\ loc = [t \in Threads |-> NoPubLocals] /\ calls = [t \in Threads |-> 0]
    /\ template_file \in {NoFile, ListFile(<<TemplateData(ActiveBusinesses)>>)}
    /\ templates = LoadCustomTemplates(LoadDefaultTemplates, template_file)
    /\ tres = NoTres
    /\ NoLog

pubFrame == <<cacheVars, histVars, logVars, tres>>

\* save_custom_template: the file is read and the list of dictionaries prepared
SaveRead(t, template, env) ==
    /\ At(t, "idle") /\ calls[t] < MaxCalls
    /\ Len(templates) < NDefault + 1 + MaxSaves
    /\ calls' = [calls EXCEPT ![t] = @ + 1]
    /\ LET custom_templates == IF template_file.state = "list" THEN template_file.data
                               ELSE <<>>
           i == IndexOfPattern(custom_templates, template.pattern)
           updated == IF i > 0
                      THEN [custom_templates EXCEPT ![i] = TemplateData(template)]
                      ELSE Append(custom_templates, TemplateData(template))
       IN  loc' = [loc EXCEPT ![t] = [NoPubLocals EXCEPT !.op = "save",
                                         !.template = {template}, !.env = env,
                                         !.custom_templates = updated]]
    /\ Goto(t, "open")
    /\ UNCHANGED <<pubFrame, templates, template_file>>

\* The text json.dump(custom_templates, f, indent=2) writes, measured in characters.
\* ensure_ascii writes a character outside ASCII as \uXXXX, six characters for one;
\* the templates saved here hold no quote, backslash or control character.
Escaped(a) == IF a \in {"cuántos", "últimos", "días"} THEN 1 ELSE 0
JsonChars(a) == Len(a) + 5 * Escaped(a)
RECURSIVE StrLen(_)
StrLen(s) == IF s = <<>> THEN 0 ELSE JsonChars(Head(s)) + StrLen(Tail(s))
\* a string between its quotes
Quoted(s) == 2 + StrLen(s)
\* the names of a list, each on a line of its own behind six blanks
RECURSIVE NamesLen(_)
NamesLen(S) ==
    IF S = {} THEN 0
    ELSE LET n == CHOOSE n \in S : TRUE IN 8 + Len(n) + NamesLen(S \ {n})
\* [] for no table; else "[", a line per name with ",\n" between, and "]" behind
\* a line break and four blanks
TablesLen(S) == IF S = {} THEN 2 ELSE 2 + NamesLen(S) + 2 * (Cardinality(S) - 1) + 6
\* one dictionary: "  {" and "  }" around its five fields, each 'key: value' on a line
\* of its own behind four blanks, ",\n" between them; the description is the empty
\* string and a sql_template of None is written null
ItemLen(d) ==
    4 + (15 + Quoted(d.pattern))
      + 2 + (19 + 2)
      + 2 + (20 + IF d.sql_template = <<>> THEN 4 ELSE Quoted(d.sql_template))
      + 2 + (15 + 2 + Len(d.db_type))
      + 2 + (25 + TablesLen(d.applicable_tables)) + 4
RECURSIVE ItemsLen(_)
ItemsLen(l) == IF l = <<>> THEN 0 ELSE ItemLen(Head(l)) + ItemsLen(Tail(l))
\* the list: "[" and "]" on lines of their own, ",\n" between the dictionaries
JsonLen(l) == IF l = <<>> THEN 2 ELSE 2 + ItemsLen(l) + 2 * (Len(l) - 1) + 2

\* a file of n characters that json.load rejects: emptied by open(..., 'w'), or a
\* text followed by the end of a longer one
NotJson(n) == [state |-> "corrupt", data |-> <<>>, size |-> n]
\* the characters in the file
FileSize(file) ==
    IF file.state = "list" THEN JsonLen(file.data)
    ELSE IF file.state = "absent" THEN 0 ELSE file.size

\* the file systems the threads save under: the open may fail; the dump, once the
\* file is open, goes through
PubEnvs == SaveEnvs \ {"dump_fail"}

\* open(self.template_path, 'w'): the file is emptied, or the open fails
SaveOpen(t) ==
    /\ At(t, "open")
    /\ IF loc[t].env = "open_fail"
       THEN /\ Goto(t, "idle")
            /\ loc' = [loc EXCEPT ![t].op = "saved"]
            /\ UNCHANGED template_file
       ELSE /\ template_file' = NotJson(0)
            /\ Goto(t, "dump")
            /\ UNCHANGED loc
    /\ UNCHANGED <<pubFrame, templates, calls>>

\* json.dump(custom_templates, f, indent=2) and the end of the with block: the text
\* goes to the file from the start of the descriptor this call opened, over what the
\* file holds by now. A longer text another call wrote since the open keeps its end
\* behind the new text, and the file is not JSON.
SaveDump(t) ==
    /\ At(t, "dump")
    /\ template_file' = IF FileSize(template_file) > JsonLen(loc[t].custom_templates)
                        THEN NotJson(FileSize(template_file))
                        ELSE ListFile(loc[t].custom_templates)
    /\ Goto(t, "append")
    /\ UNCHANGED <<pubFrame, templates, loc, calls>>

\* self.templates.append(template); return True
SaveAppend(t) ==
    /\ At(t, "append")
    /\ \E template \in loc[t].template : templates' = Publish(templates, template)
    /\ loc' = [loc EXCEPT ![t].op = "saved", ![t].ok = TRUE]
    /\ Goto(t, "idle")
    /\ UNCHANGED <<pubFrame, template_file, calls>>

\* find_matching_template: the for statement takes an iterator on self.templates
FindStart(t, query, db_schema) ==
    /\ At(t, "idle") /\ calls[t] < MaxCalls
    /\ calls' = [calls EXCEPT ![t] = @ + 1]
    /\ loc' = [loc EXCEPT ![t] = [NoPubLocals EXCEPT !.op = "find", !.query = query,
                                     !.tables = db_schema.tables, !.i = 1,
                                     !.seen = Len(templates)]]
    /\ Goto(t, "next")
    /\ UNCHANGED <<pubFrame, templates, template_file>>

\* one turn of the loop: the next element of the list as it is now, or the end
FindStep(t) ==
    /\ At(t, "next")
    /\ IF loc[t].i > Len(templates)
       THEN /\ loc' = [loc EXCEPT ![t].op = "found", ![t].index = 0, ![t].params = <<>>]
            /\ Goto(t, "idle")
       ELSE LET template == templates[loc[t].i]
                m == Matches(template, loc[t].query)
            IN  IF m.matched /\ Applicable(template, [tables |-> loc[t].tables])
                THEN /\ loc' = [loc EXCEPT ![t].op = "found", ![t].index = loc[t].i,
                                           ![t].params = m.groups]
                     /\ Goto(t, "idle")
                ELSE /\ loc' = [loc EXCEPT ![t].i = @ + 1]
                     /\ UNCHANGED pc
    /\ UNCHANGED <<pubFrame, templates, template_file, calls>>

NextPub ==
    \/ \E t \in Threads, template \in PubTemplates, e \in PubEnvs : SaveRead(t, template, e)
    \/ \E t \in Threads : SaveOpen(t)
    \/ \E t \in Threads : SaveDump(t)
    \/ \E t \in Threads : SaveAppend(t)
    \/ \E t \in Threads, q \in PubQueries, tabs \in PubTableSets :
           FindStart(t, q, [tables |-> tabs])
    \/ \E t \in Threads : FindStep(t)

SpecPub == InitPub /\ [][NextPub]_vars

\* the fields a finished QueryTemplate carries
TemplateFields == {"pattern", "sql_template", "generator_func", "db_type", "applicable_tables"}

\* what a find over the first n templates of the registry returns
FoundIn(n, t) ==
    FindFrom(SubSeq(templates, 1, n), 1, loc[t].query, [tables |-> loc[t].tables])

\* the registry holds whole templates, and every find agrees with a find over the
\* registry as it was at some moment of the call
WholeRegistry ==
    /\ \A i \in 1..Len(templates) : DOMAIN templates[i] = TemplateFields
    /\ \A t \in Threads :
          loc[t].op = "found" =>
              \E n \in loc[t].seen..Len(templates) :
                  [index |-> loc[t].index, params |-> loc[t].params] = FoundIn(n, t)
    /\ \A t \in Threads :
          At(t, "next") =>
              /\ loc[t].seen <= Len(templates)
              /\ FoundIn(loc[t].i - 1, t).index = 0

\* C24: every element of the registry is a complete template; what a find returns
\* while templates are being saved is what a find returns over the registry as it
\* was at some moment of the call (the templates it started with, followed by none,
\* some or all of those registered since, each whole); and no step moves or removes
\* a template that is registered.
C24_Publication ==
    /\ []WholeRegistry
    /\ [][SubSeq(templates', 1, Len(templates)) = templates]_vars

\* a find returned a template that was registered after the find began
C24_Witness ==
    \E t \in Threads :
        /\ loc[t].op = "found"
        /\ loc[t].index > loc[t].seen
        /\ templates[loc[t].index] \in PubTemplates

(* ----------------------- the label of a logged query -------------------- *)
\* log_query over queries of every kind _detect_pattern tells apart
TotalThenShow == <<"total", " ", "de", " ", "ventas", " ", "muestra", " ", "los", " ", "users">>
ListThenCount == <<"cuántos", " ", "pedidos", " ", "hay", " ", "lista", " ", "de", " ", "los", " ", "users">>
SearchWhere == <<"busca", " ", "users", " ", "donde", " ", "total", " ", "de", " ", "x">>
ShowTwo == <<"muestra", " ", "users">>
ShowActive == <<"muestra", " ", "users", " ", "activos">>
GiveThe == <<"dame", " ", "los", " ", "users", " ", "ahora">>
ShowOf == <<"mostrar", " ", "usuarios", " ", "activos", " ", "de">>
ListAll == <<"listar", " ", "las", " ", "todas", " ", "cosas">>
DetectQueries ==
    { ShowUsers, ShowUsersLoud, CountOrders, Greeting, ListClients, TotalThenShow,
      ListThenCount, SearchWhere, ShowTwo, ShowActive, GiveThe, ShowOf, ListAll }

InitDetect ==
    /\ memory_cache = Empty /\ memory_timestamps = Empty /\ memory_lru = <<>>
    /\ memory_limit = 0 /\ ttl = 0
    /\ disk = Empty /\ subdirs = {} /\ meta = Empty
    /\ now = 0
    /\ last = NoCall /\ ops = 0 /\ faults = 0
    /\ setAt = [h \in Hashes |-> -1]
    /\ setBy = [h \in Hashes |-> {}]
    /\ useOrder = <<>>
    /\ lruEvicted = {}
    /\ pc = Idle /\ loc = [t \in Threads |-> NoLocals] /\ calls = [t \in Threads |-> 0]
    /\ template_file = NoFile
    /\ templates = LoadCustomTemplates(LoadDefaultTemplates, template_file)
    /\ tres = NoTres
    /\ query_log = NewStore.log /\ query_patterns = NewStore.stats
    /\ db_lock = 0
    /\ lres = NoLres

NextDetect == \E q \in DetectQueries, m \in Measures : LogQuery(q, m)

SpecDetect == InitDetect /\ [][NextDetect]_vars

\* the shapes of the list that match somewhere in the lowered query
ShapesIn(query) ==
    { i \in 1..Len(common_patterns) :
        \E k \in 1..Len(query), a \in 1..Len(common_patterns[i].alts) :
            MatchAt(common_patterns[i].alts[a],
                    SubSeq(LowerAtoms(query), k, Len(query))).matched }
\* a label made from the shape: its text with a word of the query for the group
LabelOf(i, query, label) ==
    \E k \in 1..Len(query) :
        label = <<common_patterns[i].head>> \o <<LowerAtoms(query)[k]>>
                    \o common_patterns[i].tail
\* the words of the lowered query, and the places of its articles
WordsOf(query) == Split(LowerAtoms(query))
ArticlesIn(query) == { i \in 1..Len(WordsOf(query)) : WordsOf(query)[i] \in Articles }
HasListVerb(query) == \E i \in 1..Len(WordsOf(query)) : WordsOf(query)[i] \in ListVerbs
\* the label the generalisation gives: lista_de_ and the word after the first article
Coarse(query, label) ==
    /\ Len(WordsOf(query)) >= 3 /\ HasListVerb(query)
    /\ \E i \in ArticlesIn(query) :
          /\ \A j \in ArticlesIn(query) : i <= j
          /\ i < Len(WordsOf(query))
          /\ label = <<"lista_de_">> \o WordsOf(query)[i + 1]

\* C31: the record log_query appends carries the label of the first shape of the list
\* that matches the query, whatever later shapes match; when no shape matches, the
\* label lista_de_<word after the first article> of a query of three words or more
\* with a listing verb; and otherwise no label, in which case the record is appended
\* and no row of query_patterns is created or updated.
C31_DetectionOrder ==
    [][ lres'.op = "log" =>
          LET query == lres'.query
              label == query_log'[Len(query_log')].pattern
              shapes == ShapesIn(query)
          IN  /\ Len(query_log') = Len(query_log) + 1
              /\ query_log'[Len(query_log')].query = query
              /\ IF shapes # {}
                 THEN \E i \in shapes : (\A j \in shapes : i <= j) /\ LabelOf(i, query, label)
                 ELSE \/ Coarse(query, label)
                      \/ /\ ~Coarse(query, <<"lista_de_">> \o WordsOf(query)[Len(WordsOf(query))])
                         /\ \A i \in 1..(Len(WordsOf(query)) - 1) :
                                ~Coarse(query, <<"lista_de_">> \o WordsOf(query)[i + 1])
                         /\ label = NoPattern
              /\ label = NoPattern => query_patterns' = query_patterns
              /\ label # NoPattern =>
                     /\ PatternRow(query_patterns', label) > 0
                     /\ query_patterns' # query_patterns ]_vars

\* a query two shapes match (the later shape earlier in the text) was logged under
\* the first shape, and a query no shape matches under a coarse label
C31_Witness ==
    /\ Len(query_log) = 2
    /\ query_log[1].query = TotalThenShow
    /\ LabelOf(1, TotalThenShow, query_log[1].pattern)
    /\ query_log[2].query = ListAll
    /\ query_log[2].pattern = <<"lista_de_", "todas">>
    /\ Len(query_patterns) = 2

\* a query with a listing verb and no article was logged without a label
C31_WitnessNoLabel ==
    /\ Len(query_log) = 2
    /\ query_log[1].query = ListClients
    /\ query_log[1].pattern = <<"lista_de_", "clientes">>
    /\ query_log[2].query = ShowActive
    /\ query_log[2].pattern = NoPattern
    /\ Len(query_patterns) = 1

(* ------------------- claims: the saving of a cached query --------------- *)
\* C32: the estimated_savings of every 'redundant' suggestion is cost * (count - 1),
\* for the cost of every record of the query the last day holds.
C32_RedundantSaving ==
    lres.op = "suggestions"
    => \A k \in 1..Len(lres.suggestions) :
         lres.suggestions[k].type = "redundant"
         => \A r \in 1..Len(query_log) :
              (/\ query_log[r].query = lres.suggestions[k].query
               /\ query_log[r].timestamp >= now - DayLen)
              => lres.suggestions[k].estimated_savings
                   = query_log[r].cost * (lres.suggestions[k].count - 1)

\* what the suggestions do hold: the saving is 0.09 for every repeat, whatever was logged
C32_FixedSaving ==
    lres.op = "suggestions"
    => \A k \in 1..Len(lres.suggestions) :
         lres.suggestions[k].type = "redundant"
         => lres.suggestions[k].estimated_savings = 9 * (lres.suggestions[k].count - 1)

(* ------------------------- claims: key separation ----------------------- *)
\* the cache called for one query under several configurations and collections
NextSep ==
    \/ \E c \in SepCalls, r \in Payloads : Set(c, r, "ok")
    \/ \E c \in SepCalls : Get(c, "ok")
    \/ Tick

SpecSep == Init /\ [][NextSep]_vars

\* the same (normalized query, config_id, collection) triple
SameTriple(c1, c2) ==
    /\ Normalize(c1.query) = Normalize(c2.query)
    /\ c1.config_id = c2.config_id /\ c1.collection = c2.collection

\* C33: a get returns a payload only if the set that stored it was made for the same
\* (normalized query, config_id, collection) triple.
C33_KeySeparation ==
    (last.op = "get" /\ last.result \in Payloads)
    => \A c \in last.call : \A s \in setBy[last.h] : SameTriple(c, s)

\* the triples that share their hash input with another triple: "c|t" without a
\* collection and c with the collection t; the empty collection and no collection
Aliased(c1, c2) ==
    \/ /\ ~Truthy(c1.collection) /\ ~Truthy(c2.collection)
       /\ c1.config_id = c2.config_id
    \/ \E a, b \in {c1, c2} :
          /\ Truthy(a.collection) /\ ~Truthy(b.collection)
          /\ b.config_id = a.config_id \o <<"|">> \o (CHOOSE x \in a.collection : TRUE)

\* what holds: a payload crosses from one triple to another only between such triples
C33_SeparationElsewhere ==
    (last.op = "get" /\ last.result \in Payloads)
    => \A c \in last.call : \A s \in setBy[last.h] : SameTriple(c, s) \/ Aliased(c, s)

(* --------------------------- claims: freshness -------------------------- *)
\* C34: a get hit returns the payload of the most recent set of its key, also when
\* durable-tier writes of the sets failed: here for the get that follows the set.
C34_Freshness ==
    [][(/\ last.op = "set" /\ last'.op = "get" /\ last'.h = last.h
        /\ last'.result \in Payloads)
       => last'.result = last.payload]_vars

\* what holds: a get hit after a set returns the payload of that set unless the set
\* could not open the blob file and the memory tier no longer holds the key
C34_FreshUnlessOpenFailed ==
    [][(/\ last.op = "set" /\ last'.op = "get" /\ last'.h = last.h
        /\ last'.result \in Payloads /\ last'.result # last.payload)
       => (last.env = "open_fail" /\ last'.found = "disk")]_vars

(* ---------------- _update_metadata, statement by statement -------------- *)
\* get (on a hit) and set call _update_metadata, each call on a connection of its
\* own. The SELECT runs outside a transaction; the UPDATE or INSERT opens one and
\* takes the write lock of cache_metadata.db, held until conn.commit(). What a
\* transaction wrote is seen by the other connections from its commit on, and a
\* commit cannot go through while another connection is inside a SELECT.

\* a tracked key and a new key
TrackedKey == HashOf([query |-> <<"a">>, config_id |-> <<"c">>, collection |-> {}])
NewKey == HashOf([query |-> <<"b">>, config_id |-> <<"c">>, collection |-> {}])
MetaKeys == {TrackedKey, NewKey}
NoMetaLocals == [op |-> "none", h |-> NoHash, result |-> {}, row |-> {},
                 done |-> [h \in MetaKeys |-> 0]]

InitMeta ==
    /\ memory_cache = Empty /\ memory_timestamps = Empty /\ memory_lru = <<>>
    /\ memory_limit = 0 /\ ttl = 0
    /\ disk = Empty /\ subdirs = {TrackedKey}
    /\ meta = UpdateMetadata(Empty, TrackedKey, 0)
    /\ now = 0
    /\ last = NoCall /\ ops = 0 /\ faults = 0
    /\ setAt = [h \in Hashes |-> -1]
    /\ setBy = [h \in Hashes |-> {}]
    /\ useOrder = <<>>
    /\ lruEvicted = {}
    /\ pc = Idle /\ loc = [t \in Threads |-> NoMetaLocals] /\ calls = [t \in Threads |-> 0]
    /\ NoAnalyzer

metaFrame == <<memory_cache, memory_timestamps, memory_lru, memory_limit, ttl, disk, subdirs,
               histVars, tplVars, query_log, query_patterns, lres>>

\* sqlite3.connect; now = datetime.now().isoformat()
StartMeta(t, h) ==
    /\ At(t, "idle") /\ calls[t] < MaxCalls
    /\ calls' = [calls EXCEPT ![t] = @ + 1]
    /\ loc' = [loc EXCEPT ![t].op = "meta", ![t].h = h, ![t].result = {}, ![t].row = {}]
    /\ Goto(t, "select")
    /\ UNCHANGED <<metaFrame, meta, now, db_lock>>

\* cursor.execute("SELECT hit_count FROM cache_metadata WHERE query_hash = ?"): with a
\* row found the statement holds the SHARED lock until fetchone
SelectHits(t) ==
    /\ At(t, "select") /\ CanRead(t)
    /\ loc' = [loc EXCEPT ![t].result = IF loc[t].h \in DOMAIN meta
                                        THEN {meta[loc[t].h].hit_count} ELSE {}]
    /\ Goto(t, "fetch")
    /\ UNCHANGED <<metaFrame, meta, now, db_lock, calls>>

\* result = cursor.fetchone()
FetchHits(t) ==
    /\ At(t, "fetch")
    /\ Goto(t, "write")
    /\ UNCHANGED <<metaFrame, meta, now, db_lock, loc, calls>>

\* another connection is in a SELECT that found a row and has not fetched it
ReadingHits(t) == \E u \in Threads \ {t} : At(u, "fetch") /\ loc[u].result # {}

\* UPDATE ... SET last_accessed, hit_count = result[0] + 1, or INSERT ... hit_count 1;
\* the INSERT of a hash that has a row by now raises IntegrityError, and its
\* connection, dropped with the exception, keeps the write lock until it is closed
WriteHits(t) ==
    /\ At(t, "write") /\ CanWrite(t)
    /\ IF loc[t].result # {}
       THEN /\ loc' = [loc EXCEPT ![t].row =
                         { [meta[loc[t].h] EXCEPT
                              !.hit_count = (CHOOSE n \in loc[t].result : TRUE) + 1,
                              !.last_accessed = now] }]
            /\ db_lock' = t
            /\ Goto(t, "commit")
       ELSE IF loc[t].h \in DOMAIN meta
       THEN /\ loc' = [loc EXCEPT ![t].op = "duplicate"]
            /\ db_lock' = Dropped
            /\ Goto(t, "idle")
       ELSE /\ loc' = [loc EXCEPT ![t].row =
                         { [hit_count |-> 1, created_at |-> now, last_accessed |-> now] }]
            /\ db_lock' = t
            /\ Goto(t, "commit")
    /\ UNCHANGED <<metaFrame, meta, now, calls>>

\* the wait for a lock ends in OperationalError (database is locked): the SELECT
\* behind a PENDING lock, the UPDATE or INSERT behind the write lock
WriteBusy(t) ==
    /\ \/ At(t, "select") /\ ~CanRead(t)
       \/ At(t, "write") /\ ~CanWrite(t)
    /\ loc' = [loc EXCEPT ![t].op = "busy"]
    /\ Goto(t, "idle")
    /\ UNCHANGED <<metaFrame, meta, now, db_lock, calls>>

\* conn.commit(); conn.close(). The commit waits while another connection's SELECT
\* holds the SHARED lock.
CommitHits(t) ==
    /\ At(t, "commit") /\ ~ReadingHits(t)
    /\ meta' = Put(meta, loc[t].h, CHOOSE r \in loc[t].row : TRUE)
    /\ db_lock' = 0
    /\ loc' = [loc EXCEPT ![t].op = "done", ![t].done[loc[t].h] = @ + 1]
    /\ Goto(t, "idle")
    /\ UNCHANGED <<metaFrame, now, calls>>

\* the commit's wait ends in OperationalError (database is locked): nothing is written,
\* and the connection, dropped with the exception, keeps the PENDING lock
CommitHitsBusy(t) ==
    /\ At(t, "commit") /\ ReadingHits(t)
    /\ db_lock' = DroppedPending
    /\ loc' = [loc EXCEPT ![t].op = "busy"]
    /\ Goto(t, "idle")
    /\ UNCHANGED <<metaFrame, meta, now, calls>>

NextMeta ==
    \/ \E t \in Threads, h \in MetaKeys : StartMeta(t, h)
    \/ \E t \in Threads : SelectHits(t)
    \/ \E t \in Threads : FetchHits(t)
    \/ \E t \in Threads : WriteHits(t)
    \/ \E t \in Threads : WriteBusy(t)
    \/ \E t \in Threads : CommitHits(t)
    \/ \E t \in Threads : CommitHitsBusy(t)
    \/ CloseDropped

SpecMeta == InitMeta /\ [][NextMeta]_vars

\* the calls of _update_metadata for the key that returned
RECURSIVE CompletedBy(_, _)
CompletedBy(t, h) == IF t = 0 THEN 0 ELSE loc[t].done[h] + CompletedBy(t - 1, h)
Completed(h) == CompletedBy(NThreads, h)

\* C35: under every interleaving the hit_count of a tracked key has grown by the
\* number of the calls that returned, a new key gets one row whose hit_count is the
\* number of the calls that returned, and no call fails on a row another call made.
C35_NoLostHit ==
    /\ meta[TrackedKey].hit_count = 1 + Completed(TrackedKey)
    /\ Completed(NewKey) > 0 =>
           (NewKey \in DOMAIN meta /\ meta[NewKey].hit_count = Completed(NewKey))
    /\ \A t \in Threads : loc[t].op # "duplicate"

\* what holds: a hit_count never exceeds the calls that returned, and a key has a
\* row from the first call that returned
C35_NeverOvercounted ==
    /\ meta[TrackedKey].hit_count <= 1 + Completed(TrackedKey)
    /\ meta[TrackedKey].hit_count >= 1
    /\ Completed(NewKey) > 0 =>
           (/\ NewKey \in DOMAIN meta
            /\ meta[NewKey].hit_count \in 1..Completed(NewKey))

\* the two parts of C35 on their own: the count of the tracked key, the first writes
C35_TrackedCount == meta[TrackedKey].hit_count = 1 + Completed(TrackedKey)
C35_FirstWrites == \A t \in Threads : loc[t].op # "duplicate"

(* ----------------------- claims: registry and file ---------------------- *)
\* the custom part of the registry, and the registry a QueryAnalyzer constructed now
\* would have
CustomPart(registry) == SubSeq(registry, NDefault + 1, Len(registry))
Restarted(file) == LoadCustomTemplates(LoadDefaultTemplates, file)
Equivalent(registry, file) == CustomPart(registry) = CustomPart(Restarted(file))

\* C36: a successful save_custom_template keeps the custom part of the registry equal
\* to the list a newly constructed QueryAnalyzer loads from the template file (same
\* patterns in the same order, same structural templates and applicable tables), so
\* that after any sequence of successful saves a restart changes no answer.
C36_RestartEquivalence ==
    [][(Equivalent(templates, template_file) /\ tres'.op = "save" /\ tres'.ok)
       => Equivalent(templates', template_file')]_vars

\* what holds: a successful save of a pattern the file does not list keeps them equal
C36_EquivalentForNewPatterns ==
    [][(/\ Equivalent(templates, template_file) /\ tres'.op = "save" /\ tres'.ok
        /\ \A t \in tres'.template :
              IndexOfPattern(CustomPart(templates), t.pattern) = 0)
       => Equivalent(templates', template_file')]_vars

(* ------------------- claims: the built-in templates --------------------- *)
\* the typed placeholders of a pattern, and the highest $n of a structural template
TypedPlaceholders(pattern) ==
    Cardinality({ i \in 1..Len(pattern) :
                    pattern[i] \in {"{table}", "{field}", "{value}", "{number}"} })
IndexAfter(sql_template, i) ==
    IF i < Len(sql_template) /\ sql_template[i + 1] \in Digits
    THEN CHOOSE n \in 0..9 : DigitOf[n + 1] = sql_template[i + 1]
    ELSE 0
HighestPlaceholder(sql_template) ==
    LET used == { IndexAfter(sql_template, i) :
                    i \in { j \in 1..Len(sql_template) : sql_template[j] = "$" } }
    IN  IF used = {} THEN 0 ELSE CHOOSE n \in used : \A m \in used : m <= n
BuiltIns == { i \in 1..NDefault : LoadDefaultTemplates[i].generator_func = "none" }
Covered(i) ==
    HighestPlaceholder(LoadDefaultTemplates[i].sql_template)
        <= TypedPlaceholders(LoadDefaultTemplates[i].pattern)

\* C37: every built-in template without a generator uses no $n beyond the number of
\* typed placeholders of its pattern, and generate_query on the parameters a find
\* captured for a built-in returns a query.
C37_BuiltInsGenerable ==
    [][ /\ \A i \in BuiltIns : Covered(i)
        /\ (/\ tres.op = "find" /\ tres.index \in BuiltIns
            /\ tres'.op = "generate"
            /\ tres'.template = {LoadDefaultTemplates[tres.index]}
            /\ tres'.params = tres.params)
           => tres'.result.kind # "none" ]_vars

\* what holds: the built-ins that are covered generate a query from what they capture
C37_CoveredGenerate ==
    [][ (/\ tres.op = "find" /\ tres.index \in BuiltIns /\ Covered(tres.index)
         /\ tres'.op = "generate"
         /\ tres'.template = {LoadDefaultTemplates[tres.index]}
         /\ tres'.params = tres.params)
        => tres'.result.kind # "none" ]_vars
\* the built-ins that are not: the fifth, the eighth and the tenth
C37_NotCovered == { i \in BuiltIns : ~Covered(i) } = {5, 8, 10}
\* a find that a built-in not covered answered, followed by its generate_query
C37_UncoveredGenerate ==
    [][ (/\ tres.op = "find" /\ tres.index \in BuiltIns /\ ~Covered(tres.index)
         /\ tres'.op = "generate"
         /\ tres'.template = {LoadDefaultTemplates[tres.index]}
         /\ tres'.params = tres.params)
        => tres'.result.kind # "none" ]_vars

(* --------------------------- claims: failed save ------------------------ *)
\* the file lists the data of the template
Holds(file, template) ==
    /\ file.state = "list"
    /\ \E i \in 1..Len(file.data) : file.data[i] = TemplateData(template)

\* C38: a save_custom_template whose write of the template file fails returns False
\* without raising and leaves the registry as it was and the custom templates a later
\* load returns as they were; a save returns True only when the file holds the template.
C38_FailedSave ==
    [][ tres'.op = "save" =>
          /\ ~tres'.raised
          /\ ~tres'.ok =>
                /\ templates' = templates
                /\ CustomPart(Restarted(template_file')) = CustomPart(Restarted(template_file))
          /\ tres'.ok => \A t \in tres'.template : Holds(template_file', t) ]_vars

\* what holds: all of it but the file after a write that failed half way
C38_FailedSaveRegistry ==
    [][ tres'.op = "save" =>
          /\ ~tres'.raised
          /\ ~tres'.ok =>
                /\ templates' = templates
                /\ \/ template_file' = template_file
                   \/ template_file' = BadFile
          /\ tres'.ok => \A t \in tres'.template : Holds(template_file', t) ]_vars

(* ---------------- log_query that fails between its statements ---------- *)
\* A statement after the INSERT into query_log may raise (the SELECT, the arithmetic on
\* a value that is no number, the UPDATE or INSERT, the commit). The exception leaves
\* log_query before conn.commit(); the connection is dropped with its transaction
\* open, which no other connection ever sees: the tables are restored as the call
\* fails, and the dropped connection keeps the write lock until it is closed.

\* a rollback that restores the pattern rows and keeps the log record
Rollback_KeepLog(journal, log, stats) ==
    [log |-> log, stats |-> (CHOOSE j \in journal : TRUE).stats]

\* the tables after the rollback of a transaction
Rollback(journal, log, stats) ==
    [log |-> (CHOOSE j \in journal : TRUE).log, stats |-> (CHOOSE j \in journal : TRUE).stats]

FailLog(t) ==
    /\ pc[t] \in {"select", "write", "commit"}
    /\ \E o \in {Rollback(loc[t].journal, query_log, query_patterns)} :
           /\ query_log' = o.log
           /\ query_patterns' = o.stats
    /\ db_lock' = IF db_lock = t THEN Dropped ELSE db_lock
    /\ loc' = [loc EXCEPT ![t].op = "failed", ![t].journal = {}]
    /\ Goto(t, "idle")
    /\ UNCHANGED <<concFrame, calls>>

NextLogFail ==
    \/ \E t \in Threads, q \in ConcLogQueries, m \in Measures : StartLog(t, q, m)
    \/ \E t \in Threads : InsertLog(t)
    \/ \E t \in Threads : InsertBusy(t)
    \/ \E t \in Threads : SelectStat(t)
    \/ \E t \in Threads : WriteStatRow(t)
    \/ \E t \in Threads : CommitLog(t)
    \/ \E t \in Threads : FailLog(t)
    \/ CloseDropped

SpecLogFail == InitLogConc /\ [][NextLogFail]_vars

\* the tables as the connections outside the open transaction see them
Committed ==
    IF db_lock \in Threads THEN CHOOSE j \in loc[db_lock].journal : TRUE
    ELSE [log |-> query_log, stats |-> query_patterns]
\* every pattern row counts the records of its label, and every label has its row
Agree(log, stats) ==
    /\ \A i \in 1..Len(stats) :
          stats[i].count = Cardinality({ k \in 1..Len(log) : log[k].pattern = stats[i].pattern })
    /\ \A k \in 1..Len(log) :
          log[k].pattern # NoPattern => PatternRow(stats, log[k].pattern) > 0
    /\ \A i, j \in 1..Len(stats) : stats[i].pattern = stats[j].pattern => i = j

\* C39: the query log is append-only (a log_query that returns adds one record, a step
\* changes or removes no record), and after every log_query, returned or failed part
\* way, every pattern row counts the log records of its label.
C39_LogStatAgreement ==
    /\ [](Agree(Committed.log, Committed.stats))
    /\ [][ /\ Len(Committed.log') >= Len(Committed.log)
           /\ SubSeq(Committed.log', 1, Len(Committed.log)) = Committed.log
           /\ \A t \in Threads :
                 (loc'[t].op = "done" /\ pc[t] = "commit" /\ pc'[t] = "idle")
                 => Len(Committed.log') = Len(Committed.log) + 1
           /\ \A t \in Threads :
                 (loc'[t].op = "failed" /\ pc[t] # "idle" /\ pc'[t] = "idle")
                 => (Committed.log' = Committed.log /\ Committed.stats' = Committed.stats)
         ]_vars

\* a call failed after its UPDATE of the pattern row, and the tables hold the two
\* records and the count 2 of the calls that returned
C39_Witness ==
    /\ db_lock = 0
    /\ \E t \in Threads : loc[t].op = "failed" /\ loc[t].result # {} /\ calls[t] = MaxCalls
    /\ Len(query_log) = 2
    /\ \E i \in 1..Len(query_patterns) : query_patterns[i].count = 2
====
